---- MODULE Spec2Model ----
(***************************************************************************)
(* kxmenu: the input fan-in and the boot-menu state machine.               *)
(*                                                                         *)
(* input package (capability variant): one listenDevice loop per device    *)
(* decodes key records, gates them through the per-device keyStates map    *)
(* and publishes KeyEvents into eventChan (capacity 10, drop on full).     *)
(* menu package: showInteractiveMenu starts a timer goroutine, a goroutine *)
(* that forwards InputManager events as simulated key bytes, a goroutine   *)
(* that reads stdin one byte at a time, and then runs the menu loop, a     *)
(* select over timeoutCh and inputCh.                                      *)
(*                                                                         *)
(* Indices are 0-based as in the Go code: Items is a TLA+ sequence, the    *)
(* item at Go index i is Items[i + 1].  A nil entry is 0.                  *)
(*                                                                         *)
(* Spec is the menu command from the call of Show on, with the keyboard,   *)
(* the timer and one accepted device.  SpecReader is the device readers    *)
(* alone, as they run between StartListening and Show, over longer record  *)
(* histories and every device.  SpecBurst is one capability-variant reader *)
(* under a long burst of records with nobody draining eventChan.           *)
(* SpecPrompt is Show on a non-terminal stdin: the numbered prompt over    *)
(* every short input line.  SpecNP is the name-pattern variant of the      *)
(* input package: its device readers and its keyboard listener.            *)
(* SpecDiscovery is the command from DiscoverDevices to Stop over every    *)
(* kind of /dev/input node (capability variant); SpecDiscoveryNP is the    *)
(* discovery of the name-pattern variant.                                  *)
(* SpecCommand is the command with hardware input disabled, from Show to   *)
(* the return of the kernel loader.  SpecArrow is the interactive menu     *)
(* with arrow keys alone, SpecOrder the menu fed by the readers of several *)
(* devices.  SpecStopNP and SpecStopWait carry fairness conditions: every  *)
(* goroutine that can step does so in the end, and a read on a handle that *)
(* Stop closed returns an error; SpecStopWait has Stop called while the    *)
(* menu loop waits, which the command itself never does.                   *)
(* SpecTimeout is the interactive menu with a timeout configured, under    *)
(* the same fairness of the goroutines and of the timer.                   *)
(* SpecDraw is drawMenu alone, applied once to a menu of one selected item *)
(* over every terminal width, display name and description of small size.  *)
(*                                                                         *)
(* Environment: stdin is a terminal in cbreak mode, so a read blocks until *)
(* a byte is there and returns what is available; a key puts its bytes on  *)
(* stdin at once.  stdin stays open except in SpecNP, where it may hang    *)
(* up.  key, buf, fwdEvent and devBuf are the Go locals of the same roles, *)
(* kept until they are next assigned.                                      *)
(***************************************************************************)
EXTENDS Integers, Sequences, FiniteSets, TLC

\* ---------------------------------------------------------------- bounds
MaxItems == 3
\* inputs of one run: keystrokes of the operator plus records the devices deliver
MaxInputs == 2
\* records the devices deliver in a run of the readers alone
MaxRecords == 3
\* accepted input devices
NumDevices == 1
\* bytes of a line given to the numbered prompt, before its line feed
MaxLine == 3
\* records a device delivers in a burst nobody consumes: eleven press cycles
MaxBurst == 22
\* event nodes in the input directory (at least NumDevices)
NumNodes == 2
\* records the devices deliver while the menu consumes: three press cycles
MaxCycleRecords == 6
\* columns of the widest terminal drawn on
MaxWidth == 14
\* bytes of the longest display name and of the longest description
MaxNameLen == 8
MaxDescLen == 8

\* ------------------------------------------------------ program constants
KeyUnknown == 0
KeyUp == 1
KeyDown == 2
KeySelect == 3
KeyEscape == 4
KeyQuit == 5

EV_SYN == 0
EV_KEY == 1

KEY_ESC == 1
KEY_1 == 2
KEY_9 == 10
KEY_Q == 16
KEY_ENTER == 28
KEY_UP == 103
KEY_DOWN == 108
KEY_VOLUMEDOWN == 114
KEY_VOLUMEUP == 115
KEY_POWER == 116

EventChanCap == 10
InputChCap == 1
TimeoutChCap == 1

\* bytes of the keyboard protocol
ByteLF == 10
ByteCR == 13
ByteESC == 27
ByteBracket == 91
ByteA == 65
ByteB == 66
ByteQ == 81
Byteq == 113
Bytej == 106
Bytek == 107
Byte1 == 49
Byte9 == 57

\* NewTerminal's fallback width
DefaultWidth == 80
\* drawMenu: columns kept free beside a name and beside a description
NameMargin == 6
DescMargin == 8
\* len("...")
EllipsisLen == 3
ByteDot == 46
\* len("kxboot - kexec-based bootloader"), the title the command gives the menu
TitleLen == 31
\* drawMenu: the separator is min(Width-4, len(Title)+10) dashes long
SeparatorMargin == 4
SeparatorExtra == 10

\* ------------------------------------------------------------ input sets
\* digits typed: the first item, the last item of the longest menu (past the
\* end of every shorter one), and '9', past the end of every menu
DigitBytes == {Byte1, Byte1 + MaxItems - 1, Byte9}

\* what one keystroke puts on stdin: a single byte, or the three bytes of an
\* arrow or other function key (ESC [ letter)
\* (90 is 'Z', a byte no case of the menu or of the readers names)
KeyStrokes == {<<b>> : b \in {ByteLF, ByteCR, ByteESC, ByteQ, Byteq, Bytej, Bytek}
                              \cup DigitBytes}
              \cup {<<ByteESC, ByteBracket, c>> : c \in {ByteA, ByteB, 90}}

\* the arrow keys Up and Down
ArrowStrokes == {<<ByteESC, ByteBracket, c>> : c \in {ByteA, ByteB}}

\* the keystrokes given to the keyboard listener: those, and the [ key
ListenerKeyStrokes == KeyStrokes \cup {<<ByteBracket>>}

\* raw key codes the devices deliver: one code of every translated class, a
\* digit that selects, a digit past the menu, and a code translateKeyCode has
\* no case for (30, the letter A)
RawCodes == {KEY_ESC, KEY_1, KEY_9, KEY_Q, KEY_POWER, KEY_VOLUMEUP, KEY_VOLUMEDOWN, 30}

RecordValues == {0, 1, 2}

\* whole records a device delivers: the synchronization report that follows
\* every key change, a record of another type (4, miscellaneous) whose code
\* and value read like the release of the power key, and key records of every
\* code and value
Records == {[type |-> EV_SYN, code |-> 0, value |-> 0, whole |-> TRUE],
            [type |-> 4, code |-> KEY_POWER, value |-> 0, whole |-> TRUE]}
           \cup {[type |-> EV_KEY, code |-> c, value |-> v, whole |-> TRUE] :
                    c \in RawCodes, v \in RecordValues}

\* the records delivered while the menu runs: presses and releases of one code
\* of every class the forwarding goroutine distinguishes
MenuRecords == {r \in Records :
                  /\ r.type = EV_KEY
                  /\ r.code \in {KEY_ESC, KEY_1, KEY_Q, KEY_POWER, KEY_VOLUMEUP, KEY_VOLUMEDOWN}
                  /\ r.value \in {0, 1}}

\* the records of a burst: presses and releases of two translated codes
BurstRecords == {r \in Records :
                   /\ r.type = EV_KEY
                   /\ r.code \in {KEY_POWER, KEY_VOLUMEUP}
                   /\ r.value \in {0, 1}}

\* the records of the volume keys: presses and releases
VolumeRecords == {r \in Records :
                    /\ r.type = EV_KEY
                    /\ r.code \in {KEY_VOLUMEUP, KEY_VOLUMEDOWN}
                    /\ r.value \in {0, 1}}

\* the nodes discovery examines, in directory order; the readers that are
\* given records are those of the first NumDevices nodes
Nodes == 1 .. NumNodes

Devices == 1 .. NumDevices

\* device names, as bytes: "gpio-keys", "PMIC", "Power Button", "Lid Switch"
\* and the empty name
NodeNames ==
    {<<103, 112, 105, 111, 45, 107, 101, 121, 115>>,
     <<80, 77, 73, 67>>,
     <<80, 111, 119, 101, 114, 32, 66, 117, 116, 116, 111, 110>>,
     <<76, 105, 100, 32, 83, 119, 105, 116, 99, 104>>,
     <<>>}

\* what a node answers to the probe: whether it opens, whether the name query
\* succeeds and the name, whether the capability query succeeds and the first
\* byte of the event-type bitmask (bit 0 EV_SYN, bit 1 EV_KEY; 20: neither).
\* What the probe never gets to see is left at its zero value.
NodeKinds ==
    {[opens |-> FALSE, nameOK |-> FALSE, name |-> <<>>, capOK |-> FALSE, evBits |-> 0],
     [opens |-> TRUE, nameOK |-> FALSE, name |-> <<>>, capOK |-> FALSE, evBits |-> 0]}
    \cup {[opens |-> TRUE, nameOK |-> TRUE, name |-> nm, capOK |-> FALSE, evBits |-> 0] :
             nm \in NodeNames}
    \cup {[opens |-> TRUE, nameOK |-> TRUE, name |-> nm, capOK |-> TRUE, evBits |-> b] :
             nm \in NodeNames, b \in {1, 2, 3, 20}}

\* a keypad that opens and answers both queries
PlainNode ==
    [opens |-> TRUE, nameOK |-> TRUE,
     name |-> <<103, 112, 105, 111, 45, 107, 101, 121, 115>>, capOK |-> TRUE, evBits |-> 3]

\* bytes of the lines given to the numbered prompt: the digits 0, 1, 2, a
\* minus sign, a letter and a blank
PromptBytes == {48, 49, 50, 45, 120, 32}

\* the lines: up to MaxLine bytes and the line feed
PromptLines ==
    {body \o <<ByteLF>> :
        body \in UNION {[1 .. n -> PromptBytes] : n \in 0 .. MaxLine}}

\* the boot-root path given to the command: the flag's default and another
BootRoots == {"/mnt", "/boot"}

VARIABLES
    Items, SelectedIndex, Timeout, hasIM,
    pc, key, buf, retEntry, retErr, draws,
    timeoutCh, timerPc,
    inputCh, kbdPc, kbdBuf, fwdPc, fwdEvent, fwdByte,
    stdin, inputsLeft,
    eventChan, keyStates, devPc, devBuf, devOpen, stopped,
    IsTTY, termRaw, input,
    lkPc, lkBytes, lkReader, stdinEOF,
    nodeEnv, imDevices, cmdPc, discNext, discErr, bootRoot, loadCalls,
    Width, DisplayName, Description, screen

menuVars == <<Items, SelectedIndex, Timeout, hasIM, pc, key, buf, retEntry, retErr, draws>>
timerVars == <<timeoutCh, timerPc>>
kbdVars == <<kbdPc, kbdBuf>>
fwdVars == <<fwdPc, fwdEvent, fwdByte>>
ttyVars == <<stdin, inputsLeft>>
devVars == <<keyStates, devPc, devBuf, devOpen, stopped>>
showVars == <<IsTTY, termRaw, input>>
lkVars == <<lkPc, lkBytes, lkReader, stdinEOF>>
discVars == <<nodeEnv, imDevices, cmdPc, discNext, discErr, bootRoot, loadCalls>>
drawVars == <<Width, DisplayName, Description, screen>>

vars == <<Items, SelectedIndex, Timeout, hasIM, pc, key, buf, retEntry, retErr, draws,
          timeoutCh, timerPc, inputCh, kbdPc, kbdBuf, fwdPc, fwdEvent, fwdByte,
          stdin, inputsLeft, eventChan, keyStates, devPc, devBuf, devOpen, stopped,
          IsTTY, termRaw, input, lkPc, lkBytes, lkReader, stdinEOF,
          nodeEnv, imDevices, cmdPc, discNext, discErr, bootRoot, loadCalls,
          Width, DisplayName, Description, screen>>

\* the zero KeyEvent
NoEvent == [Code |-> KeyUnknown, Type |-> "KeyPress"]

\* a reader's buffer before its first whole read, and after a short read
\* (a partial record, which the loop never parses)
NoRecord == [type |-> EV_SYN, code |-> 0, value |-> 0, whole |-> FALSE]

\* ----------------------------------------------------------- event codec
\* translateKeyCode (capability variant): raw Linux key code -> KeyCode
translateKeyCode(linuxCode) ==
    CASE linuxCode \in {KEY_VOLUMEUP, KEY_UP} -> KeyUp
      [] linuxCode \in {KEY_VOLUMEDOWN, KEY_DOWN} -> KeyDown
      [] linuxCode \in {KEY_POWER, KEY_ENTER} -> KeySelect
      [] linuxCode = KEY_ESC -> KeyEscape
      [] linuxCode = KEY_Q -> KeyQuit
      [] linuxCode \in KEY_1 .. KEY_9 -> KeyQuit + (linuxCode - KEY_1 + 1)
      [] OTHER -> KeyUnknown

\* translateKeyCode (name-pattern variant): no digit keys
translateKeyCodeNP(linuxCode) ==
    CASE linuxCode \in {KEY_VOLUMEUP, KEY_UP} -> KeyUp
      [] linuxCode \in {KEY_VOLUMEDOWN, KEY_DOWN} -> KeyDown
      [] linuxCode \in {KEY_POWER, KEY_ENTER} -> KeySelect
      [] linuxCode = KEY_ESC -> KeyEscape
      [] linuxCode = KEY_Q -> KeyQuit
      [] OTHER -> KeyUnknown

\* listenKeyboard reads on after these bytes: ESC, and ESC [
MoreToRead(bytes) == bytes = <<ByteESC>> \/ bytes = <<ByteESC, ByteBracket>>

decodeKeyboardStrict(bytes) ==
    CASE bytes[1] = ByteESC ->
            IF Len(bytes) = 3 /\ bytes[2] = ByteBracket
            THEN CASE bytes[3] = ByteA -> KeyUp
                   [] bytes[3] = ByteB -> KeyDown
                   [] OTHER -> KeyUnknown
            ELSE KeyEscape
      [] bytes[1] \in {ByteLF, ByteCR} -> KeySelect
      [] bytes[1] = Bytej -> KeyDown
      [] bytes[1] = Bytek -> KeyUp
      [] bytes[1] \in {Byteq, ByteQ} -> KeyQuit
      [] bytes[1] >= Byte1 /\ bytes[1] <= Byte9 -> KeyQuit + (bytes[1] - 48)
      [] OTHER -> KeyUnknown

\* listenKeyboard's switch on the bytes of one iteration (char, next, arrow;
\* -1 stands for a ReadByte that returned an error): the code of the event
\* to publish, KeyUnknown when the loop continues without an event
decodeKeyboard(bytes) ==
    CASE bytes[1] = ByteESC ->
            IF Len(bytes) = 3 /\ bytes[2] = ByteBracket
            THEN CASE bytes[3] = ByteA -> KeyUp
                   [] bytes[3] = ByteB -> KeyDown
                   [] OTHER -> KeyEscape
            ELSE KeyEscape
      [] bytes[1] \in {ByteLF, ByteCR} -> KeySelect
      [] bytes[1] = Bytej -> KeyDown
      [] bytes[1] = Bytek -> KeyUp
      [] bytes[1] \in {Byteq, ByteQ} -> KeyQuit
      [] bytes[1] >= Byte1 /\ bytes[1] <= Byte9 -> KeyQuit + (bytes[1] - 48)
      [] OTHER -> KeyUnknown

TrySendDropOldest(ch, v, cap) == IF Len(ch) < cap THEN Append(ch, v) ELSE Append(Tail(ch), v)

\* non-blocking send: select { case ch <- v: default: }
TrySend(ch, v, cap) == IF Len(ch) < cap THEN Append(ch, v) ELSE ch

handleKeyEventUngated(ks, ch, keyCode, value) ==
    CASE value = 1 -> [ks |-> [ks EXCEPT ![keyCode] = TRUE], ch |-> ch]
      [] value = 0 ->
            [ks |-> [ks EXCEPT ![keyCode] = FALSE],
             ch |-> IF translateKeyCode(keyCode) # KeyUnknown
                    THEN TrySend(ch, [Code |-> translateKeyCode(keyCode), Type |-> "KeyPress"],
                                 EventChanCap)
                    ELSE ch]
      [] OTHER -> [ks |-> ks, ch |-> ch]

handleKeyEventRepeatEmits(ks, ch, keyCode, value) ==
    CASE value = 1 -> [ks |-> [ks EXCEPT ![keyCode] = TRUE], ch |-> ch]
      [] value \in {0, 2} ->
            IF ks[keyCode]
            THEN [ks |-> [ks EXCEPT ![keyCode] = (value = 2)],
                  ch |-> IF translateKeyCode(keyCode) # KeyUnknown
                         THEN TrySend(ch, [Code |-> translateKeyCode(keyCode), Type |-> "KeyPress"],
                                      EventChanCap)
                         ELSE ch]
            ELSE [ks |-> ks, ch |-> ch]
      [] OTHER -> [ks |-> ks, ch |-> ch]

\* handleKeyEvent: press marks the code, release of a marked code clears it and
\* publishes the translated event (dropped when the channel is full), repeat
\* and any other value do nothing.  Returns the new keyStates map of the
\* device and the new eventChan.
handleKeyEvent(ks, ch, keyCode, value) ==
    CASE value = 1 -> [ks |-> [ks EXCEPT ![keyCode] = TRUE], ch |-> ch]
      [] value = 0 ->
            IF ks[keyCode]
            THEN [ks |-> [ks EXCEPT ![keyCode] = FALSE],
                  ch |-> IF translateKeyCode(keyCode) # KeyUnknown
                         THEN TrySend(ch, [Code |-> translateKeyCode(keyCode), Type |-> "KeyPress"],
                                      EventChanCap)
                         ELSE ch]
            ELSE [ks |-> ks, ch |-> ch]
      [] OTHER -> [ks |-> ks, ch |-> ch]

\* ------------------------------------------------------------- discovery
supportsKeyEventsBitZero(capOK, evBits) == capOK /\ evBits % 2 = 1

\* supportsKeyEvents: the capability query succeeded and bit 1 (EV_KEY) of the
\* first byte of the bitmask is set
supportsKeyEvents(capOK, evBits) == capOK /\ (evBits \div 2) % 2 = 1

ToLowerNone(name) == name

\* strings.ToLower on the bytes of a name
ToLower(name) ==
    [i \in 1 .. Len(name) |-> IF name[i] \in 65 .. 90 THEN name[i] + 32 ELSE name[i]]

\* strings.Contains
Contains(name, pattern) ==
    \E i \in 1 .. Len(name) - Len(pattern) + 1 :
       SubSeq(name, i, i + Len(pattern) - 1) = pattern

\* the patterns of hasRelevantKeys: "gpio-keys", "power", "volume", "button",
\* "pmic", "keyboard"
patterns ==
    {<<103, 112, 105, 111, 45, 107, 101, 121, 115>>,
     <<112, 111, 119, 101, 114>>,
     <<118, 111, 108, 117, 109, 101>>,
     <<98, 117, 116, 116, 111, 110>>,
     <<112, 109, 105, 99>>,
     <<107, 101, 121, 98, 111, 97, 114, 100>>}

\* hasRelevantKeys: the lowered name contains one of the patterns
hasRelevantKeys(name) == \E pattern \in patterns : Contains(ToLower(name), pattern)

HandleAfterProbeLeak(opens, nameOK, accept) == opens /\ (~nameOK \/ accept)

\* whether the handle of a node is open once DiscoverDevices is done with it:
\* not opened, or closed after a failed name query, or closed on rejection,
\* or kept open with the accepted device
HandleAfterProbe(opens, nameOK, accept) == opens /\ nameOK /\ accept

\* ------------------------------------------------------------ menu codec
ForwardByteUpAsDown(code) ==
    CASE code = KeyUp -> Bytej
      [] code = KeyDown -> Bytej
      [] code = KeySelect -> ByteCR
      [] code \in {KeyQuit, KeyEscape} -> Byteq
      [] OTHER -> 0

ForwardByteQuitAsSelect(code) ==
    CASE code = KeyUp -> Bytek
      [] code = KeyDown -> Bytej
      [] code \in {KeySelect, KeyQuit} -> ByteCR
      [] code = KeyEscape -> Byteq
      [] OTHER -> 0

\* the byte the forwarding goroutine writes to inputCh for an event code; 0: none
ForwardByte(code) ==
    CASE code = KeyUp -> Bytek
      [] code = KeyDown -> Bytej
      [] code = KeySelect -> ByteCR
      [] code \in {KeyQuit, KeyEscape} -> Byteq
      [] OTHER -> 0

MoveUpNoClamp(index) == index - 1

MoveUp(index) == IF index > 0 THEN index - 1 ELSE index

MoveDownNoClamp(index, len) == index + 1

MoveDown(index, len) == IF index < len - 1 THEN index + 1 ELSE index

IsDigitKey(k) == k >= Byte1 /\ k <= Byte9

DigitIndexFromZero(k) == k - 48

DigitIndex(k) == k - Byte1

Min(a, b) == IF a < b THEN a ELSE b

Range(f) == {f[i] : i \in DOMAIN f}

\* the members of a set of nodes in directory order
RECURSIVE SetToSeq(_)
SetToSeq(S) ==
    IF S = {} THEN <<>>
    ELSE LET m == CHOOSE x \in S : \A y \in S : x <= y
         IN  <<m>> \o SetToSeq(S \ {m})

Max(a, b) == IF a > b THEN a ELSE b

EntryAtFirst(items, i) == items[1]

\* Items[i].Entry for the Go index i
EntryAt(items, i) == items[i + 1]

\* --------------------------------------------------- the numbered prompt
\* the bytes fmt counts as space: tab, LF, VT, FF, CR, blank
SpaceBytes == {9, 10, 11, 12, 13, 32}

\* fmt's SkipSpace in a Scanln: blanks are passed over up to a line feed
\* (a CR before the LF is passed over like the other blanks)
RECURSIVE SkipSpace(_)
SkipSpace(s) ==
    IF s # <<>> /\ Head(s) \in SpaceBytes /\ Head(s) # ByteLF
    THEN SkipSpace(Tail(s))
    ELSE s

\* the length of the word s starts with: the bytes before the first space byte
RECURSIVE WordLen(_)
WordLen(s) ==
    IF s = <<>> \/ Head(s) \in SpaceBytes THEN 0 ELSE 1 + WordLen(Tail(s))

\* what follows the first word of s, blanks passed over
AfterWord(s) ==
    LET t == SkipSpace(s) IN SkipSpace(SubSeq(t, WordLen(t) + 1, Len(t)))

\* fmt.Scanln(&input) can return: a line feed ends the blanks, or the first
\* word is followed by a line feed or by the start of a second word
ScanComplete(s) ==
    LET t == SkipSpace(s) IN
    /\ t # <<>>
    /\ (Head(t) = ByteLF \/ AfterWord(s) # <<>>)

\* the string fmt.Scanln stores in input: empty when the line is blank
\* ("unexpected newline"), else the first word (also when the scan then fails
\* with "expected newline" on a second word)
ScanToken(s) ==
    LET t == SkipSpace(s) IN
    IF t = <<>> \/ Head(t) = ByteLF THEN <<>> ELSE SubSeq(t, 1, WordLen(t))

\* what fmt.Scanln leaves on stdin: it reads up to and including the line
\* feed, or the first byte of a second word
ScanRest(s) ==
    LET t == SkipSpace(s) IN
    IF t = <<>> THEN <<>>
    ELSE IF Head(t) = ByteLF THEN Tail(t)
    ELSE IF AfterWord(s) = <<>> THEN <<>> ELSE Tail(AfterWord(s))

IsDigit(c) == c \in 48 .. 57

RECURSIVE DecimalValue(_)
DecimalValue(ds) ==
    IF ds = <<>> THEN 0
    ELSE 10 * DecimalValue(SubSeq(ds, 1, Len(ds) - 1)) + (ds[Len(ds)] - 48)

\* strconv.Atoi: an optional sign ('+' 43, '-' 45) and one or more decimal
\* digits, nothing else (the words here are far shorter than the int range)
Atoi(s) ==
    LET signed == s # <<>> /\ s[1] \in {43, 45}
        ds == IF signed THEN Tail(s) ELSE s
    IN  IF ds = <<>> \/ \E i \in 1 .. Len(ds) : ~IsDigit(ds[i])
        THEN [ok |-> FALSE, val |-> 0]
        ELSE [ok |-> TRUE,
              val |-> IF signed /\ s[1] = 45 THEN 0 - DecimalValue(ds) ELSE DecimalValue(ds)]

\* showSimpleMenu after the scan: the entry and the error it returns
showSimpleMenu(items, word) ==
    IF word = <<>>
    THEN [entry |-> items[1], err |-> "nil"]
    ELSE IF ~Atoi(word).ok \/ Atoi(word).val < 1 \/ Atoi(word).val > Len(items)
         THEN [entry |-> 0, err |-> "invalid"]
         ELSE [entry |-> items[Atoi(word).val], err |-> "nil"]

ShowReturnsOnSuccess(raw, err) == IF err = "nil" THEN FALSE ELSE raw

\* the terminal mode (raw or not) once Show has returned: the deferred
\* restoreTerminal runs on every return of showInteractiveMenu
ShowReturns(raw, err) == FALSE

RedrawAlways(n, pcNext) == n + 1

\* the number of renderings once a step of the menu loop is over: the loop
\* head, with its drawMenu, is reached when the loop goes (back) to the select
Redraw(n, pcNext) == IF pcNext = "wait" THEN n + 1 ELSE n

\* ---------------------------------------------------------- menu: drawing
\* the text "..." appended to a truncated name or description
Ellipsis == <<ByteDot, ByteDot, ByteDot>>

\* a text of n bytes; byte i of it is written i, which no bound lets reach ByteDot
TextOf(n) == [i \in 1 .. n |-> i]

\* nothing drawn yet
NoScreen == [done |-> FALSE, panic |-> "none", name |-> <<>>, desc |-> <<>>]

\* if len(s) > maxWidth { s = s[:maxWidth-3] + "..." }: a slice expression with
\* a negative bound panics at run time; the bound never exceeds len(s) here
truncate(s, maxWidth) ==
    IF Len(s) > maxWidth
    THEN IF maxWidth - EllipsisLen < 0
         THEN [ok |-> FALSE, text |-> <<>>]
         ELSE [ok |-> TRUE, text |-> SubSeq(s, 1, maxWidth - EllipsisLen) \o Ellipsis]
    ELSE [ok |-> TRUE, text |-> s]

\* the repeat count of the separator line; strings.Repeat panics on a negative one
separatorCount(width) == Min(width - SeparatorMargin, TitleLen + SeparatorExtra)

\* NewTerminal when the size of the terminal is not to be had, and an item
\* whose name and description fit any terminal
DefaultTerminal ==
    /\ Width = DefaultWidth
    /\ DisplayName = TextOf(1)
    /\ Description = <<>>
    /\ screen = NoScreen

\* ------------------------------------------------------------------ Init
InitWith(budget, accepted, typed) ==
    /\ \E n \in 1 .. MaxItems : Items = [i \in 1 .. n |-> i]
    /\ SelectedIndex = 0
    /\ Timeout \in {0, 1}
    /\ hasIM \in BOOLEAN
    /\ pc = "show"
    /\ key = 0
    /\ buf = <<0, 0>>
    /\ retEntry = 0
    /\ retErr = "none"
    /\ draws = 0
    /\ timeoutCh = <<>>
    /\ timerPc = "off"
    /\ inputCh = <<>>
    /\ kbdPc = "off"
    /\ kbdBuf = 0
    /\ fwdPc = "off"
    /\ fwdEvent = NoEvent
    /\ fwdByte = 0
    /\ stdin \in typed
    /\ inputsLeft = budget
    /\ eventChan = <<>>
    /\ keyStates = [d \in Nodes |-> [c \in RawCodes |-> FALSE]]
    /\ devPc = [d \in Nodes |-> IF hasIM /\ d \in accepted THEN "check" ELSE "off"]
    /\ devBuf = [d \in Nodes |-> NoRecord]
    /\ devOpen = [d \in Nodes |-> hasIM /\ d \in accepted]
    /\ imDevices = (IF hasIM THEN SetToSeq(accepted) ELSE <<>>)
    /\ stopped = FALSE
    /\ IsTTY \in BOOLEAN
    /\ termRaw = FALSE
    /\ input = <<>>
    /\ lkBytes = <<>>
    /\ lkReader = <<>>
    /\ stdinEOF = FALSE
    /\ loadCalls = <<>>

\* discovery and StartListening are over, the menu command is about to call Show
Discovered ==
    /\ nodeEnv = [n \in Nodes |-> PlainNode]
    /\ cmdPc = "show"
    /\ discNext = NumNodes + 1
    /\ discErr = "nil"
    /\ bootRoot = "/mnt"

\* the menu command is about to call Show: discovery accepted one device (or
\* hardware input is disabled), its reader is started
Init == InitWith(MaxInputs, {1}, {<<>>}) /\ DefaultTerminal /\ lkPc = "off" /\ Discovered

\* the menu command calls os.Exit(1) as soon as Show returns an error, and
\* when the loader fails: the process, and every goroutine in it, is gone
\* (the specifications that stop at the return of Show have the first case alone)
Exited == (pc = "done" /\ retErr # "nil") \/ cmdPc = "exit1"

\* ------------------------------------------------- the command: discovery
\* DiscoverDevices: os.ReadDir fails and the error is returned; the command
\* prints a warning and goes on, without devices
DiscoverFails ==
    /\ cmdPc = "discover"
    /\ discNext = 1
    /\ cmdPc' = "listen"
    /\ discErr' = "readdir"
    /\ UNCHANGED <<nodeEnv, imDevices, discNext, bootRoot, loadCalls>>
    /\ UNCHANGED <<menuVars, timerVars, inputCh, kbdVars, fwdVars, ttyVars, eventChan>>
    /\ UNCHANGED <<devVars, showVars, lkVars>>
    /\ UNCHANGED drawVars

DiscoverNodeStopsAtFailure ==
    /\ cmdPc = "discover"
    /\ discNext \in Nodes
    /\ LET e == nodeEnv[discNext]
           accept == supportsKeyEvents(e.capOK, e.evBits)
           failed == ~e.opens \/ ~e.nameOK
       IN  /\ devOpen' = [devOpen EXCEPT
                             ![discNext] = HandleAfterProbe(e.opens, e.nameOK, accept)]
           /\ imDevices' = IF e.opens /\ e.nameOK /\ accept
                           THEN Append(imDevices, discNext)
                           ELSE imDevices
           /\ discNext' = discNext + 1
           /\ cmdPc' = IF failed \/ discNext = NumNodes THEN "listen" ELSE "discover"
           /\ discErr' = IF failed THEN "probe"
                         ELSE IF discNext = NumNodes THEN "nil" ELSE discErr
    /\ UNCHANGED <<nodeEnv, bootRoot, loadCalls, keyStates, devPc, devBuf, stopped>>
    /\ UNCHANGED <<menuVars, timerVars, inputCh, kbdVars, fwdVars, ttyVars, eventChan>>
    /\ UNCHANGED <<showVars, lkVars>>
    /\ UNCHANGED drawVars

\* DiscoverDevices, capability variant, one entry of the directory: open, name
\* query, supportsKeyEvents; the device is appended or the file closed; after
\* the last entry nil is returned
DiscoverNode ==
    /\ cmdPc = "discover"
    /\ discNext \in Nodes
    /\ LET e == nodeEnv[discNext]
           accept == supportsKeyEvents(e.capOK, e.evBits)
       IN  /\ devOpen' = [devOpen EXCEPT
                             ![discNext] = HandleAfterProbe(e.opens, e.nameOK, accept)]
           /\ imDevices' = IF e.opens /\ e.nameOK /\ accept
                           THEN Append(imDevices, discNext)
                           ELSE imDevices
    /\ discNext' = discNext + 1
    /\ cmdPc' = IF discNext = NumNodes THEN "listen" ELSE "discover"
    /\ discErr' = IF discNext = NumNodes THEN "nil" ELSE discErr
    /\ UNCHANGED <<nodeEnv, bootRoot, loadCalls, keyStates, devPc, devBuf, stopped>>
    /\ UNCHANGED <<menuVars, timerVars, inputCh, kbdVars, fwdVars, ttyVars, eventChan>>
    /\ UNCHANGED <<showVars, lkVars>>
    /\ UNCHANGED drawVars

\* DiscoverDevices, name-pattern variant, one entry of the directory: open,
\* name query, hasRelevantKeys; the device is appended or the file closed
DiscoverNodeNP ==
    /\ cmdPc = "discover"
    /\ discNext \in Nodes
    /\ LET e == nodeEnv[discNext]
           accept == hasRelevantKeys(e.name)
       IN  /\ devOpen' = [devOpen EXCEPT
                             ![discNext] = HandleAfterProbe(e.opens, e.nameOK, accept)]
           /\ imDevices' = IF e.opens /\ e.nameOK /\ accept
                           THEN Append(imDevices, discNext)
                           ELSE imDevices
    /\ discNext' = discNext + 1
    /\ cmdPc' = IF discNext = NumNodes THEN "listen" ELSE "discover"
    /\ discErr' = IF discNext = NumNodes THEN "nil" ELSE discErr
    /\ UNCHANGED <<nodeEnv, bootRoot, loadCalls, keyStates, devPc, devBuf, stopped>>
    /\ UNCHANGED <<menuVars, timerVars, inputCh, kbdVars, fwdVars, ttyVars, eventChan>>
    /\ UNCHANGED <<showVars, lkVars>>
    /\ UNCHANGED drawVars

\* StartListening, capability variant: one listenDevice per accepted device
StartListening ==
    /\ cmdPc = "listen"
    /\ cmdPc' = "show"
    /\ devPc' = [d \in Nodes |-> IF d \in Range(imDevices) THEN "check" ELSE "off"]
    /\ UNCHANGED <<nodeEnv, imDevices, discNext, discErr, bootRoot, loadCalls>>
    /\ UNCHANGED <<keyStates, devBuf, devOpen, stopped>>
    /\ UNCHANGED <<menuVars, timerVars, inputCh, kbdVars, fwdVars, ttyVars, eventChan>>
    /\ UNCHANGED <<showVars, lkVars>>
    /\ UNCHANGED drawVars

\* StartListening, name-pattern variant: the device readers and listenKeyboard
StartListeningNP ==
    /\ cmdPc = "listen"
    /\ cmdPc' = "show"
    /\ devPc' = [d \in Nodes |-> IF d \in Range(imDevices) THEN "check" ELSE "off"]
    /\ lkPc' = "check"
    /\ UNCHANGED <<nodeEnv, imDevices, discNext, discErr, bootRoot, loadCalls>>
    /\ UNCHANGED <<keyStates, devBuf, devOpen, stopped>>
    /\ UNCHANGED <<menuVars, timerVars, inputCh, kbdVars, fwdVars, ttyVars, eventChan>>
    /\ UNCHANGED <<showVars, lkBytes, lkReader, stdinEOF>>
    /\ UNCHANGED drawVars

\* ------------------------------------------------------------ menu: Show
ShowAlwaysInteractive ==
    /\ pc = "show"
    /\ cmdPc = "show"
    /\ pc' = "start"
    /\ termRaw' = TRUE
    /\ UNCHANGED <<Items, SelectedIndex, Timeout, hasIM, key, buf, retEntry, retErr, draws,
                   inputCh, eventChan, IsTTY, input>>
    /\ UNCHANGED <<timerVars, kbdVars, fwdVars, ttyVars, devVars>>
    /\ UNCHANGED lkVars
    /\ UNCHANGED discVars
    /\ UNCHANGED drawVars

\* Show: without a terminal on stdout, or when stty fails in setupTerminal,
\* the numbered prompt; otherwise the terminal is put in cbreak mode and
\* showInteractiveMenu is entered (restoreTerminal deferred)
Show ==
    /\ pc = "show"
    /\ cmdPc = "show"
    /\ \/ /\ ~IsTTY
          /\ pc' = "prompt"
          /\ UNCHANGED termRaw
       \/ /\ IsTTY
          /\ \/ pc' = "prompt" /\ UNCHANGED termRaw
             \/ pc' = "start" /\ termRaw' = TRUE
    /\ UNCHANGED <<Items, SelectedIndex, Timeout, hasIM, key, buf, retEntry, retErr, draws,
                   inputCh, eventChan, IsTTY, input>>
    /\ UNCHANGED <<timerVars, kbdVars, fwdVars, ttyVars, devVars>>
    /\ UNCHANGED lkVars
    /\ UNCHANGED discVars
    /\ UNCHANGED drawVars

\* showSimpleMenu: fmt.Scanln(&input) takes the first word of the line from
\* stdin (its error is not looked at), then the word is parsed and checked
ShowSimple ==
    /\ pc = "prompt"
    /\ ScanComplete(stdin)
    /\ input' = ScanToken(stdin)
    /\ stdin' = ScanRest(stdin)
    /\ retEntry' = showSimpleMenu(Items, ScanToken(stdin)).entry
    /\ retErr' = showSimpleMenu(Items, ScanToken(stdin)).err
    /\ pc' = "done"
    /\ UNCHANGED <<Items, SelectedIndex, Timeout, hasIM, key, buf, draws, inputCh, inputsLeft,
                   eventChan, IsTTY, termRaw>>
    /\ UNCHANGED <<timerVars, kbdVars, fwdVars, devVars>>
    /\ UNCHANGED lkVars
    /\ UNCHANGED discVars
    /\ UNCHANGED drawVars

\* ------------------------------------------------------- menu: the loop
\* showInteractiveMenu up to the first select: channels made, the timer, the
\* forwarding and the keyboard goroutines started, the menu drawn once
StartInteractive ==
    /\ pc = "start"
    /\ timeoutCh' = <<>>
    /\ inputCh' = <<>>
    /\ timerPc' = IF Timeout > 0 THEN "sleep" ELSE "off"
    /\ fwdPc' = IF hasIM THEN "recv" ELSE "off"
    /\ kbdPc' = "read"
    /\ pc' = "wait"
    /\ draws' = Redraw(draws, pc')
    /\ UNCHANGED <<Items, SelectedIndex, Timeout, hasIM, key, buf, retEntry, retErr,
                   kbdBuf, fwdEvent, fwdByte, stdin, inputsLeft, eventChan>>
    /\ UNCHANGED devVars
    /\ UNCHANGED showVars
    /\ UNCHANGED lkVars
    /\ UNCHANGED discVars
    /\ UNCHANGED drawVars

MenuTimeoutCancels ==
    /\ pc = "wait"
    /\ timeoutCh # <<>>
    /\ timeoutCh' = Tail(timeoutCh)
    /\ retEntry' = 0
    /\ retErr' = "cancelled"
    /\ pc' = "done"
    /\ UNCHANGED <<Items, SelectedIndex, Timeout, hasIM, key, buf, draws, timerPc, inputCh,
                   eventChan>>
    /\ UNCHANGED <<kbdVars, fwdVars, ttyVars, devVars>>
    /\ termRaw' = ShowReturns(termRaw, retErr')
    /\ UNCHANGED <<IsTTY, input>>
    /\ UNCHANGED lkVars
    /\ UNCHANGED discVars
    /\ UNCHANGED drawVars

\* case <-timeoutCh
MenuTimeout ==
    /\ pc = "wait"
    /\ timeoutCh # <<>>
    /\ timeoutCh' = Tail(timeoutCh)
    /\ retEntry' = EntryAt(Items, SelectedIndex)
    /\ retErr' = "nil"
    /\ pc' = "done"
    /\ UNCHANGED <<Items, SelectedIndex, Timeout, hasIM, key, buf, draws, timerPc, inputCh,
                   eventChan>>
    /\ UNCHANGED <<kbdVars, fwdVars, ttyVars, devVars>>
    /\ termRaw' = ShowReturns(termRaw, retErr')
    /\ UNCHANGED <<IsTTY, input>>
    /\ UNCHANGED lkVars
    /\ UNCHANGED discVars
    /\ UNCHANGED drawVars

\* case key := <-inputCh, the switch on key, and the redraw at the loop head
MenuKey ==
    /\ pc = "wait"
    /\ inputCh # <<>>
    /\ LET k == Head(inputCh) IN
       /\ inputCh' = Tail(inputCh)
       /\ key' = k
       /\ CASE k \in {ByteLF, ByteCR} ->
                 /\ retEntry' = EntryAt(Items, SelectedIndex)
                 /\ retErr' = "nil"
                 /\ pc' = "done"
                 /\ UNCHANGED SelectedIndex
            [] k = ByteESC ->
                 /\ pc' = "esc"
                 /\ UNCHANGED <<SelectedIndex, retEntry, retErr>>
            [] k \in {Byteq, ByteQ} ->
                 /\ retEntry' = 0
                 /\ retErr' = "cancelled"
                 /\ pc' = "done"
                 /\ UNCHANGED SelectedIndex
            [] k = Bytej ->
                 /\ SelectedIndex' = MoveDown(SelectedIndex, Len(Items))
                 /\ UNCHANGED <<pc, retEntry, retErr>>
            [] k = Bytek ->
                 /\ SelectedIndex' = MoveUp(SelectedIndex)
                 /\ UNCHANGED <<pc, retEntry, retErr>>
            [] OTHER ->
                 IF IsDigitKey(k) /\ DigitIndex(k) < Len(Items)
                 THEN /\ SelectedIndex' = DigitIndex(k)
                      /\ retEntry' = EntryAt(Items, DigitIndex(k))
                      /\ retErr' = "nil"
                      /\ pc' = "done"
                 ELSE UNCHANGED <<SelectedIndex, pc, retEntry, retErr>>
    /\ draws' = Redraw(draws, pc')
    /\ UNCHANGED <<Items, Timeout, hasIM, buf, eventChan>>
    /\ UNCHANGED <<timerVars, kbdVars, fwdVars, ttyVars, devVars>>
    /\ termRaw' = IF pc' = "done" THEN ShowReturns(termRaw, retErr') ELSE termRaw
    /\ UNCHANGED <<IsTTY, input>>
    /\ UNCHANGED lkVars
    /\ UNCHANGED discVars
    /\ UNCHANGED drawVars

\* case 27: os.Stdin.Read of the two follow-on bytes by the menu loop itself.
\* The terminal is in cbreak mode: the read blocks until a byte is there and
\* returns the bytes available, at most two; a missing second byte stays 0.
MenuEscRead ==
    /\ pc = "esc"
    /\ stdin # <<>>
    /\ LET n == Min(2, Len(stdin))
           b == <<stdin[1], IF n = 2 THEN stdin[2] ELSE 0>>
       IN  /\ buf' = b
           /\ stdin' = SubSeq(stdin, n + 1, Len(stdin))
           /\ SelectedIndex' =
                 IF b[1] = ByteBracket
                 THEN CASE b[2] = ByteA -> MoveUp(SelectedIndex)
                        [] b[2] = ByteB -> MoveDown(SelectedIndex, Len(Items))
                        [] OTHER -> SelectedIndex
                 ELSE SelectedIndex
    /\ pc' = "wait"
    /\ draws' = Redraw(draws, pc')
    /\ UNCHANGED <<Items, Timeout, hasIM, key, retEntry, retErr, inputCh, inputsLeft,
                   eventChan>>
    /\ UNCHANGED <<timerVars, kbdVars, fwdVars, devVars>>
    /\ UNCHANGED showVars
    /\ UNCHANGED lkVars
    /\ UNCHANGED discVars
    /\ UNCHANGED drawVars

\* ----------------------------------------------------- menu: goroutines
\* time.Sleep(Timeout) elapsed; timeoutCh <- true
TimerFire ==
    /\ ~Exited
    /\ timerPc = "sleep"
    /\ Len(timeoutCh) < TimeoutChCap
    /\ timeoutCh' = Append(timeoutCh, TRUE)
    /\ timerPc' = "fired"
    /\ UNCHANGED <<menuVars, inputCh, kbdVars, fwdVars, ttyVars, eventChan, devVars>>
    /\ UNCHANGED showVars
    /\ UNCHANGED lkVars
    /\ UNCHANGED discVars
    /\ UNCHANGED drawVars

ForwardGetEventNewest ==
    /\ ~Exited
    /\ fwdPc = "recv"
    /\ eventChan # <<>>
    /\ eventChan' = SubSeq(eventChan, 1, Len(eventChan) - 1)
    /\ fwdEvent' = eventChan[Len(eventChan)]
    /\ IF ForwardByte(eventChan[Len(eventChan)].Code) # 0
       THEN /\ fwdByte' = ForwardByte(eventChan[Len(eventChan)].Code)
            /\ fwdPc' = "send"
       ELSE UNCHANGED <<fwdPc, fwdByte>>
    /\ UNCHANGED <<menuVars, timerVars, inputCh, kbdVars, ttyVars, devVars>>
    /\ UNCHANGED showVars
    /\ UNCHANGED lkVars
    /\ UNCHANGED discVars
    /\ UNCHANGED drawVars

\* event := m.InputManager.GetEvent() and the switch on event.Code
ForwardGetEvent ==
    /\ ~Exited
    /\ fwdPc = "recv"
    /\ eventChan # <<>>
    /\ eventChan' = Tail(eventChan)
    /\ fwdEvent' = Head(eventChan)
    /\ IF ForwardByte(Head(eventChan).Code) # 0
       THEN /\ fwdByte' = ForwardByte(Head(eventChan).Code)
            /\ fwdPc' = "send"
       ELSE UNCHANGED <<fwdPc, fwdByte>>
    /\ UNCHANGED <<menuVars, timerVars, inputCh, kbdVars, ttyVars, devVars>>
    /\ UNCHANGED showVars
    /\ UNCHANGED lkVars
    /\ UNCHANGED discVars
    /\ UNCHANGED drawVars

\* inputCh <- byte, blocking while inputCh is full
ForwardSend ==
    /\ ~Exited
    /\ fwdPc = "send"
    /\ Len(inputCh) < InputChCap
    /\ inputCh' = Append(inputCh, fwdByte)
    /\ fwdPc' = "recv"
    /\ fwdByte' = 0
    /\ UNCHANGED fwdEvent
    /\ UNCHANGED <<menuVars, timerVars, kbdVars, ttyVars, eventChan, devVars>>
    /\ UNCHANGED showVars
    /\ UNCHANGED lkVars
    /\ UNCHANGED discVars
    /\ UNCHANGED drawVars

\* os.Stdin.Read(buf) of one byte by the keyboard goroutine
KeyboardRead ==
    /\ ~Exited
    /\ kbdPc = "read"
    /\ stdin # <<>>
    /\ kbdBuf' = Head(stdin)
    /\ stdin' = Tail(stdin)
    /\ kbdPc' = "send"
    /\ UNCHANGED inputsLeft
    /\ UNCHANGED <<menuVars, timerVars, inputCh, fwdVars, eventChan, devVars>>
    /\ UNCHANGED showVars
    /\ UNCHANGED lkVars
    /\ UNCHANGED discVars
    /\ UNCHANGED drawVars

\* inputCh <- buf[0], blocking while inputCh is full
KeyboardSend ==
    /\ ~Exited
    /\ kbdPc = "send"
    /\ Len(inputCh) < InputChCap
    /\ inputCh' = Append(inputCh, kbdBuf)
    /\ kbdPc' = "read"
    /\ kbdBuf' = 0
    /\ UNCHANGED <<menuVars, timerVars, fwdVars, ttyVars, eventChan, devVars>>
    /\ UNCHANGED showVars
    /\ UNCHANGED lkVars
    /\ UNCHANGED discVars
    /\ UNCHANGED drawVars

\* the operator presses one key on the terminal
TypeKey(strokes) ==
    /\ inputsLeft > 0
    /\ ~stdinEOF
    /\ \E ks \in strokes : stdin' = stdin \o ks
    /\ inputsLeft' = inputsLeft - 1
    /\ UNCHANGED <<menuVars, timerVars, inputCh, kbdVars, fwdVars, eventChan, devVars>>
    /\ UNCHANGED showVars
    /\ UNCHANGED lkVars
    /\ UNCHANGED discVars
    /\ UNCHANGED drawVars

\* ------------------------------------------------- input: device readers
\* listenDevice, head of the loop: select { case <-im.stopChan: return; default: }
DeviceCheckStop(d) ==
    /\ ~Exited
    /\ devPc[d] = "check"
    /\ devPc' = [devPc EXCEPT ![d] = IF stopped THEN "exited" ELSE "read"]
    /\ UNCHANGED <<keyStates, devBuf, devOpen, stopped>>
    /\ UNCHANGED <<menuVars, timerVars, inputCh, kbdVars, fwdVars, ttyVars, eventChan>>
    /\ UNCHANGED showVars
    /\ UNCHANGED lkVars
    /\ UNCHANGED discVars
    /\ UNCHANGED drawVars

\* device.File.Read returned an error: the reader returns
DeviceReadError(d) ==
    /\ ~Exited
    /\ devPc[d] = "read"
    /\ devPc' = [devPc EXCEPT ![d] = "exited"]
    /\ UNCHANGED <<keyStates, devBuf, devOpen, stopped>>
    /\ UNCHANGED <<menuVars, timerVars, inputCh, kbdVars, fwdVars, ttyVars, eventChan>>
    /\ UNCHANGED showVars
    /\ UNCHANGED lkVars
    /\ UNCHANGED discVars
    /\ UNCHANGED drawVars

\* device.File.Read returned fewer bytes than one record: skipped
DeviceShortRead(d) ==
    /\ ~Exited
    /\ devPc[d] = "read"
    /\ devOpen[d]
    /\ inputsLeft > 0
    /\ inputsLeft' = inputsLeft - 1
    /\ devPc' = [devPc EXCEPT ![d] = "check"]
    /\ devBuf' = [devBuf EXCEPT ![d] = NoRecord]
    /\ UNCHANGED <<keyStates, devOpen, stopped, stdin>>
    /\ UNCHANGED <<menuVars, timerVars, inputCh, kbdVars, fwdVars, eventChan>>
    /\ UNCHANGED showVars
    /\ UNCHANGED lkVars
    /\ UNCHANGED discVars
    /\ UNCHANGED drawVars

DeviceRecordAnyType(d, records) ==
    /\ ~Exited
    /\ devPc[d] = "read"
    /\ devOpen[d]
    /\ inputsLeft > 0
    /\ inputsLeft' = inputsLeft - 1
    /\ devPc' = [devPc EXCEPT ![d] = "check"]
    /\ \E event \in records :
          /\ devBuf' = [devBuf EXCEPT ![d] = event]
          /\ IF event.code \in RawCodes
             THEN /\ keyStates' = [keyStates EXCEPT
                         ![d] = handleKeyEvent(keyStates[d], eventChan, event.code, event.value).ks]
                  /\ eventChan' = handleKeyEvent(keyStates[d], eventChan, event.code, event.value).ch
             ELSE UNCHANGED <<keyStates, eventChan>>
    /\ UNCHANGED <<devOpen, stopped, stdin>>
    /\ UNCHANGED <<menuVars, timerVars, inputCh, kbdVars, fwdVars>>
    /\ UNCHANGED showVars
    /\ UNCHANGED lkVars
    /\ UNCHANGED discVars
    /\ UNCHANGED drawVars

\* device.File.Read returned one whole record (type, code, value)
DeviceRecord(d, records) ==
    /\ ~Exited
    /\ devPc[d] = "read"
    /\ devOpen[d]
    /\ inputsLeft > 0
    /\ inputsLeft' = inputsLeft - 1
    /\ devPc' = [devPc EXCEPT ![d] = "check"]
    /\ \E event \in records :
          /\ devBuf' = [devBuf EXCEPT ![d] = event]
          /\ IF event.type = EV_KEY
             THEN /\ keyStates' = [keyStates EXCEPT
                         ![d] = handleKeyEvent(keyStates[d], eventChan, event.code, event.value).ks]
                  /\ eventChan' = handleKeyEvent(keyStates[d], eventChan, event.code, event.value).ch
             ELSE UNCHANGED <<keyStates, eventChan>>
    /\ UNCHANGED <<devOpen, stopped, stdin>>
    /\ UNCHANGED <<menuVars, timerVars, inputCh, kbdVars, fwdVars>>
    /\ UNCHANGED showVars
    /\ UNCHANGED lkVars
    /\ UNCHANGED discVars
    /\ UNCHANGED drawVars

\* ------------------------------- input, name-pattern variant: the readers
\* listenDevice: device.File.Read returned an error; the loop continues
DeviceReadErrorNP(d) ==
    /\ ~Exited
    /\ devPc[d] = "read"
    /\ devPc' = [devPc EXCEPT ![d] = "check"]
    /\ UNCHANGED <<keyStates, devBuf, devOpen, stopped>>
    /\ UNCHANGED <<menuVars, timerVars, inputCh, kbdVars, fwdVars, ttyVars, eventChan>>
    /\ UNCHANGED <<showVars, lkVars>>
    /\ UNCHANGED discVars
    /\ UNCHANGED drawVars

\* listenDevice: one whole record; a key record of value 1 is translated and
\* published (dropped when the channel is full)
DeviceRecordNP(d, records) ==
    /\ ~Exited
    /\ devPc[d] = "read"
    /\ devOpen[d]
    /\ inputsLeft > 0
    /\ inputsLeft' = inputsLeft - 1
    /\ devPc' = [devPc EXCEPT ![d] = "check"]
    /\ \E event \in records :
          /\ devBuf' = [devBuf EXCEPT ![d] = event]
          /\ eventChan' =
                IF /\ event.type = EV_KEY
                   /\ event.value = 1
                   /\ translateKeyCodeNP(event.code) # KeyUnknown
                THEN TrySend(eventChan,
                             [Code |-> translateKeyCodeNP(event.code), Type |-> "KeyPress"],
                             EventChanCap)
                ELSE eventChan
    /\ UNCHANGED <<keyStates, devOpen, stopped, stdin>>
    /\ UNCHANGED <<menuVars, timerVars, inputCh, kbdVars, fwdVars>>
    /\ UNCHANGED <<showVars, lkVars>>
    /\ UNCHANGED discVars
    /\ UNCHANGED drawVars

\* listenKeyboard, head of the loop: select { case <-im.stopChan: return; default: }
KeyboardCheckStop ==
    /\ ~Exited
    /\ lkPc = "check"
    /\ lkPc' = IF stopped THEN "exited" ELSE "read"
    /\ UNCHANGED <<lkBytes, lkReader, stdinEOF>>
    /\ UNCHANGED <<menuVars, timerVars, inputCh, kbdVars, fwdVars, ttyVars, eventChan>>
    /\ UNCHANGED <<devVars, showVars>>
    /\ UNCHANGED discVars
    /\ UNCHANGED drawVars

\* listenKeyboard: one reader.ReadByte() (of char, next or arrow) and, when
\* the iteration needs no further byte, the switch and the publication.
\* bufio: a byte of the buffer; or, the buffer empty, what stdin holds goes to
\* the buffer; or, stdin at its end, an error.
KeyboardListenerRead ==
    /\ ~Exited
    /\ lkPc = "read"
    /\ lkReader # <<>> \/ stdin # <<>> \/ stdinEOF
    /\ LET avail == IF lkReader # <<>> THEN lkReader ELSE stdin
           b == IF avail # <<>> THEN Head(avail) ELSE 0 - 1
           bytes == (IF MoreToRead(lkBytes) THEN lkBytes ELSE <<>>) \o <<b>>
       IN  /\ lkBytes' = bytes
           /\ lkReader' = IF avail # <<>> THEN Tail(avail) ELSE <<>>
           /\ stdin' = IF lkReader # <<>> THEN stdin ELSE <<>>
           /\ lkPc' = IF MoreToRead(bytes) THEN "read" ELSE "check"
           /\ eventChan' =
                 IF ~MoreToRead(bytes) /\ decodeKeyboard(bytes) # KeyUnknown
                 THEN TrySend(eventChan, [Code |-> decodeKeyboard(bytes), Type |-> "KeyPress"],
                              EventChanCap)
                 ELSE eventChan
    /\ UNCHANGED <<stdinEOF, inputsLeft>>
    /\ UNCHANGED <<menuVars, timerVars, inputCh, kbdVars, fwdVars>>
    /\ UNCHANGED <<devVars, showVars>>
    /\ UNCHANGED discVars
    /\ UNCHANGED drawVars

\* stdin reaches its end (the terminal hangs up, the pipe is closed)
HangUp ==
    /\ ~stdinEOF
    /\ stdinEOF' = TRUE
    /\ UNCHANGED <<lkPc, lkBytes, lkReader>>
    /\ UNCHANGED <<menuVars, timerVars, inputCh, kbdVars, fwdVars, ttyVars, eventChan>>
    /\ UNCHANGED <<devVars, showVars>>
    /\ UNCHANGED discVars
    /\ UNCHANGED drawVars

LoaderInvokedWhateverShowReturned(err, entry) == TRUE

\* the command after Show: the loader is called unless Show returned an error
\* or a nil entry
LoaderInvoked(err, entry) == err = "nil" /\ entry # 0

\* the menu command once Show has returned: os.Exit(1) on an error and on a
\* nil entry, else kexec.LoadEntryFromParsed(selectedEntry, bootRoot)
CommandAfterShow ==
    /\ pc = "done"
    /\ cmdPc = "show"
    /\ IF LoaderInvoked(retErr, retEntry)
       THEN /\ cmdPc' = "load"
            /\ loadCalls' = Append(loadCalls, <<retEntry, bootRoot>>)
       ELSE /\ cmdPc' = "exit1"
            /\ UNCHANGED loadCalls
    /\ UNCHANGED <<nodeEnv, imDevices, discNext, discErr, bootRoot>>
    /\ UNCHANGED <<menuVars, timerVars, inputCh, kbdVars, fwdVars, ttyVars, eventChan>>
    /\ UNCHANGED <<devVars, showVars, lkVars>>
    /\ UNCHANGED drawVars

\* kexec.LoadEntryFromParsed returns: os.Exit(1) on an error, else the
\* command returns
LoadReturns ==
    /\ cmdPc = "load"
    /\ cmdPc' \in {"return", "exit1"}
    /\ UNCHANGED <<nodeEnv, imDevices, discNext, discErr, bootRoot, loadCalls>>
    /\ UNCHANGED <<menuVars, timerVars, inputCh, kbdVars, fwdVars, ttyVars, eventChan>>
    /\ UNCHANGED <<devVars, showVars, lkVars>>
    /\ UNCHANGED drawVars

\* InputManager.Stop, deferred by the menu command: runs when the command
\* returns after a selected entry was loaded
Stop ==
    /\ hasIM
    /\ pc = "done"
    /\ retErr = "nil"
    /\ ~stopped
    /\ stopped' = TRUE
    /\ devOpen' = [d \in Nodes |-> devOpen[d] /\ d \notin Range(imDevices)]
    /\ UNCHANGED <<keyStates, devPc, devBuf>>
    /\ UNCHANGED <<menuVars, timerVars, inputCh, kbdVars, fwdVars, ttyVars, eventChan>>
    /\ UNCHANGED showVars
    /\ UNCHANGED lkVars
    /\ UNCHANGED discVars
    /\ UNCHANGED drawVars

\* InputManager.Stop called while the menu loop waits, by another party than
\* the command's deferred call (Stop is an exported method)
StopDuringMenu ==
    /\ hasIM
    /\ pc = "wait"
    /\ ~stopped
    /\ stopped' = TRUE
    /\ devOpen' = [d \in Nodes |-> devOpen[d] /\ d \notin Range(imDevices)]
    /\ UNCHANGED <<keyStates, devPc, devBuf>>
    /\ UNCHANGED <<menuVars, timerVars, inputCh, kbdVars, fwdVars, ttyVars, eventChan>>
    /\ UNCHANGED showVars
    /\ UNCHANGED lkVars
    /\ UNCHANGED discVars
    /\ UNCHANGED drawVars

Next ==
    \/ Show
    \/ ShowSimple
    \/ StartInteractive
    \/ MenuTimeout
    \/ MenuKey
    \/ MenuEscRead
    \/ TimerFire
    \/ ForwardGetEvent
    \/ ForwardSend
    \/ KeyboardRead
    \/ KeyboardSend
    \/ TypeKey(KeyStrokes)
    \/ \E d \in Devices : DeviceCheckStop(d)
    \/ \E d \in Devices : DeviceReadError(d)
    \/ \E d \in Devices : DeviceShortRead(d)
    \/ \E d \in Devices : DeviceRecord(d, MenuRecords)
    \/ Stop

Spec == Init /\ [][Next]_vars

\* the device readers alone, before the menu command calls Show: discovery
\* accepted every device
InitReader ==
    /\ InitWith(MaxRecords, Devices, {<<>>})
    /\ DefaultTerminal
    /\ hasIM /\ Timeout = 0 /\ Len(Items) = 1 /\ IsTTY
    /\ lkPc = "off"
    /\ Discovered

NextReader ==
    \/ \E d \in Devices : DeviceCheckStop(d)
    \/ \E d \in Devices : DeviceReadError(d)
    \/ \E d \in Devices : DeviceShortRead(d)
    \/ \E d \in Devices : DeviceRecord(d, Records)

SpecReader == InitReader /\ [][NextReader]_vars

\* the menu command with a line waiting on stdin (piped, or typed ahead) and
\* no terminal on stdout: Show and the numbered prompt alone
InitPrompt ==
    /\ InitWith(0, {}, PromptLines)
    /\ DefaultTerminal
    /\ ~hasIM /\ Timeout = 0 /\ ~IsTTY /\ lkPc = "off"
    /\ Discovered

NextPrompt ==
    \/ Show
    \/ ShowSimple

SpecPrompt == InitPrompt /\ [][NextPrompt]_vars

\* one device reader under a burst of key records, before the menu command
\* calls Show: nothing takes events from the queue
InitBurst ==
    /\ InitWith(MaxBurst, {1}, {<<>>})
    /\ DefaultTerminal
    /\ hasIM /\ Timeout = 0 /\ Len(Items) = 1 /\ IsTTY
    /\ lkPc = "off"
    /\ Discovered

NextBurst ==
    \/ \E d \in Devices : DeviceCheckStop(d)
    \/ \E d \in Devices : DeviceRecord(d, BurstRecords)

SpecBurst == InitBurst /\ [][NextBurst]_vars

\* the menu command from discovery to Stop, capability variant: the nodes
\* answer the probe in every way, a blank line waits on stdin and stdout is
\* no terminal, so that Show returns the first entry and the command returns
InitDiscovery ==
    /\ InitWith(0, {}, {<<ByteLF>>})
    /\ DefaultTerminal
    /\ hasIM /\ Timeout = 0 /\ Len(Items) = 1 /\ ~IsTTY
    /\ lkPc = "off"
    /\ nodeEnv \in [Nodes -> NodeKinds]
    /\ cmdPc = "discover"
    /\ discNext = 1
    /\ discErr = "none"
    /\ bootRoot = "/mnt"

NextDiscovery ==
    \/ DiscoverFails
    \/ DiscoverNode
    \/ StartListening
    \/ \E d \in Nodes : DeviceCheckStop(d)
    \/ Show
    \/ ShowSimple
    \/ Stop

SpecDiscovery == InitDiscovery /\ [][NextDiscovery]_vars

\* discovery and StartListening of the name-pattern variant
NextDiscoveryNP ==
    \/ DiscoverFails
    \/ DiscoverNodeNP
    \/ StartListeningNP

SpecDiscoveryNP == InitDiscovery /\ [][NextDiscoveryNP]_vars

\* the readers of the name-pattern variant after StartListening: one
\* listenDevice per accepted device and listenKeyboard
InitNP ==
    /\ InitWith(MaxInputs, Devices, {<<>>})
    /\ DefaultTerminal
    /\ hasIM /\ Timeout = 0 /\ Len(Items) = 1 /\ IsTTY
    /\ lkPc = "check"
    /\ Discovered

NextNP ==
    \/ \E d \in Devices : DeviceCheckStop(d)
    \/ \E d \in Devices : DeviceReadErrorNP(d)
    \/ \E d \in Devices : DeviceShortRead(d)
    \/ \E d \in Devices : DeviceRecordNP(d, Records)
    \/ KeyboardCheckStop
    \/ KeyboardListenerRead
    \/ TypeKey(ListenerKeyStrokes)
    \/ HangUp

SpecNP == InitNP /\ [][NextNP]_vars

\* the menu command of the name-pattern variant from Show to the deferred Stop:
\* a blank line waits on stdin and stdout is no terminal, the device readers
\* and listenKeyboard run.  Every goroutine that can take a step does so in
\* the end; a read on a handle that Stop closed returns an error (Close
\* wakes the reads pending on the handle); records arrive or not.
InitStopNP ==
    /\ InitWith(MaxInputs, Devices, {<<ByteLF>>})
    /\ DefaultTerminal
    /\ hasIM /\ Timeout = 0 /\ Len(Items) = 1 /\ ~IsTTY
    /\ lkPc = "check"
    /\ Discovered

NextStopNP ==
    \/ Show
    \/ ShowSimple
    \/ Stop
    \/ \E d \in Devices : DeviceCheckStop(d)
    \/ \E d \in Devices : DeviceReadErrorNP(d)
    \/ \E d \in Devices : DeviceRecordNP(d, BurstRecords)
    \/ KeyboardCheckStop
    \/ KeyboardListenerRead

FairStopNP ==
    /\ WF_vars(Show) /\ WF_vars(ShowSimple) /\ WF_vars(Stop)
    /\ \A d \in Devices : WF_vars(DeviceCheckStop(d))
    /\ \A d \in Devices : WF_vars(DeviceReadErrorNP(d) /\ ~devOpen[d])
    /\ WF_vars(KeyboardCheckStop) /\ WF_vars(KeyboardListenerRead)

SpecStopNP == InitStopNP /\ [][NextStopNP]_vars /\ FairStopNP

\* the menu command with hardware input disabled (no InputManager, no
\* deferred Stop), from the call of Show to the return of the loader
InitCommand ==
    /\ InitWith(MaxInputs, {}, {<<>>})
    /\ DefaultTerminal
    /\ ~hasIM
    /\ lkPc = "off"
    /\ nodeEnv = [n \in Nodes |-> PlainNode]
    /\ cmdPc = "show"
    /\ discNext = 1
    /\ discErr = "none"
    /\ bootRoot \in BootRoots

NextCommand ==
    \/ Show
    \/ ShowSimple
    \/ StartInteractive
    \/ MenuTimeout
    \/ MenuKey
    \/ MenuEscRead
    \/ TimerFire
    \/ KeyboardRead
    \/ KeyboardSend
    \/ TypeKey(KeyStrokes)
    \/ CommandAfterShow
    \/ LoadReturns

SpecCommand == InitCommand /\ [][NextCommand]_vars

\* the interactive menu with one device, a stop requested while the loop
\* waits.  Every goroutine that can take a step does so in the end; a read on
\* a closed handle returns an error; keys and records arrive or not.
InitStopWait ==
    /\ InitWith(MaxInputs, {1}, {<<>>})
    /\ DefaultTerminal
    /\ hasIM /\ IsTTY /\ Len(Items) = 1
    /\ lkPc = "off"
    /\ Discovered

NextStopWait ==
    \/ Show
    \/ ShowSimple
    \/ StartInteractive
    \/ MenuTimeout
    \/ MenuKey
    \/ MenuEscRead
    \/ TimerFire
    \/ ForwardGetEvent
    \/ ForwardSend
    \/ KeyboardRead
    \/ KeyboardSend
    \/ TypeKey(KeyStrokes)
    \/ \E d \in Devices : DeviceCheckStop(d)
    \/ \E d \in Devices : DeviceReadError(d)
    \/ \E d \in Devices : DeviceRecord(d, MenuRecords)
    \/ StopDuringMenu

FairStopWait ==
    /\ WF_vars(Show) /\ WF_vars(ShowSimple) /\ WF_vars(StartInteractive)
    /\ WF_vars(MenuTimeout) /\ WF_vars(MenuKey) /\ WF_vars(MenuEscRead)
    /\ WF_vars(TimerFire)
    /\ WF_vars(ForwardGetEvent) /\ WF_vars(ForwardSend)
    /\ WF_vars(KeyboardRead) /\ WF_vars(KeyboardSend)
    /\ \A d \in Devices : WF_vars(DeviceCheckStop(d))
    /\ \A d \in Devices : WF_vars(DeviceReadError(d) /\ ~devOpen[d])

SpecStopWait == InitStopWait /\ [][NextStopWait]_vars /\ FairStopWait

\* the interactive menu on a terminal where only arrow keys are pressed:
\* keyboard only, no timeout
InitArrow ==
    /\ InitWith(MaxInputs, {}, {<<>>})
    /\ DefaultTerminal
    /\ ~hasIM /\ IsTTY /\ Timeout = 0
    /\ lkPc = "off"
    /\ Discovered

NextArrow ==
    \/ Show
    \/ StartInteractive
    \/ MenuKey
    \/ MenuEscRead
    \/ KeyboardRead
    \/ KeyboardSend
    \/ TypeKey(ArrowStrokes)

SpecArrow == InitArrow /\ [][NextArrow]_vars

\* the interactive menu fed by the readers of every node, the volume keys
\* pressed and released on them in any order: several readers publish while
\* the forwarding goroutine consumes
InitOrder ==
    /\ InitWith(MaxCycleRecords, Nodes, {<<>>})
    /\ DefaultTerminal
    /\ hasIM /\ IsTTY /\ Timeout = 0 /\ Len(Items) = 2
    /\ lkPc = "off"
    /\ Discovered

NextOrder ==
    \/ Show
    \/ StartInteractive
    \/ MenuKey
    \/ ForwardGetEvent
    \/ ForwardSend
    \/ \E d \in Nodes : DeviceCheckStop(d)
    \/ \E d \in Nodes : DeviceRecord(d, VolumeRecords)

SpecOrder == InitOrder /\ [][NextOrder]_vars

\* ------------------------------------------- the menu under its timeout
\* the interactive menu with a timeout configured, fed by the keyboard and by
\* one device
InitTimeout ==
    /\ InitWith(MaxInputs, {1}, {<<>>})
    /\ DefaultTerminal
    /\ hasIM /\ IsTTY /\ Timeout = 1 /\ Len(Items) = 2
    /\ lkPc = "off"
    /\ Discovered

NextTimeout ==
    \/ Show
    \/ StartInteractive
    \/ MenuTimeout
    \/ MenuKey
    \/ MenuEscRead
    \/ TimerFire
    \/ ForwardGetEvent
    \/ ForwardSend
    \/ KeyboardRead
    \/ KeyboardSend
    \/ TypeKey(KeyStrokes)
    \/ \E d \in Devices : DeviceCheckStop(d)
    \/ \E d \in Devices : DeviceRecord(d, MenuRecords)

\* the scheduler runs every goroutine that can step, the sleep of the timer
\* ends, and a read returns once there is something to read; nothing obliges
\* the operator or a device to deliver input
FairTimeout ==
    /\ WF_vars(Show) /\ WF_vars(StartInteractive)
    /\ WF_vars(MenuTimeout) /\ WF_vars(MenuKey) /\ WF_vars(MenuEscRead)
    /\ WF_vars(TimerFire)
    /\ WF_vars(ForwardGetEvent) /\ WF_vars(ForwardSend)
    /\ WF_vars(KeyboardRead) /\ WF_vars(KeyboardSend)
    /\ \A d \in Devices : WF_vars(DeviceCheckStop(d))

SpecTimeout == InitTimeout /\ [][NextTimeout]_vars /\ FairTimeout

\* ------------------------------------------------------- drawMenu alone
\* drawMenu on a menu whose one item is the selected one: title, separator,
\* the item's name, its description if it has one, footer.  A panic ends the
\* rendering at the line that raised it.
drawMenu ==
    /\ ~screen.done
    /\ LET name == truncate(DisplayName, Width - NameMargin)
           desc == IF Description # <<>>
                   THEN truncate(Description, Width - DescMargin)
                   ELSE [ok |-> TRUE, text |-> <<>>]
       IN  screen' =
               IF separatorCount(Width) < 0
               THEN [done |-> TRUE, panic |-> "separator", name |-> <<>>, desc |-> <<>>]
               ELSE IF ~name.ok
               THEN [done |-> TRUE, panic |-> "name", name |-> <<>>, desc |-> <<>>]
               ELSE IF ~desc.ok
               THEN [done |-> TRUE, panic |-> "description", name |-> name.text,
                     desc |-> <<>>]
               ELSE [done |-> TRUE, panic |-> "none", name |-> name.text,
                     desc |-> desc.text]
    /\ UNCHANGED <<Width, DisplayName, Description>>
    /\ UNCHANGED <<menuVars, timerVars, inputCh, kbdVars, fwdVars, ttyVars, eventChan>>
    /\ UNCHANGED <<devVars, showVars, lkVars, discVars>>

\* NewTerminal took the width the terminal reports, any positive column count;
\* NewBootMenu gave the item a non-empty name and any description
InitDraw ==
    /\ InitWith(0, {}, {<<>>})
    /\ ~hasIM /\ IsTTY /\ Timeout = 0 /\ Len(Items) = 1
    /\ lkPc = "off"
    /\ Discovered
    /\ Width \in 1 .. MaxWidth
    /\ DisplayName \in {TextOf(n) : n \in 1 .. MaxNameLen}
    /\ Description \in {TextOf(n) : n \in 0 .. MaxDescLen}
    /\ screen = NoScreen

NextDraw == drawMenu

SpecDraw == InitDraw /\ [][NextDraw]_vars

\* ================================================================ claims
\* the menu loop receives key k from inputCh in this step
MenuTakes(k) ==
    pc = "wait" /\ inputCh # <<>> /\ Head(inputCh) = k /\ inputCh' = Tail(inputCh)

\* the menu loop's follow-on read after ESC returns with b in buf in this step
EscDecoded(b) == pc = "esc" /\ pc' # "esc" /\ buf' = b

\* every keystroke of the run was typed, read and consumed by the menu loop
KeyboardDrained ==
    ~hasIM /\ inputsLeft = 0 /\ stdin = <<>> /\ inputCh = <<>> /\ kbdPc = "read"

\* C1: in every reachable state of the interactive menu over a non-empty item
\* list the selection index is a valid index, 0 <= SelectedIndex < len(Items),
\* whatever keys, arrow sequences, digits and hardware events were received.
C1_IndexInRange == Len(Items) >= 1 /\ 0 <= SelectedIndex /\ SelectedIndex < Len(Items)

\* two Down keys were consumed on a two-item menu: the second one met the last index
C1_Witness ==
    /\ KeyboardDrained
    /\ Len(Items) = 2
    /\ pc = "wait"
    /\ key = Bytej
    /\ SelectedIndex = 1

\* C2: an Up input ('k', ESC [ A, or a forwarded hardware Up) sets the index to
\* max(0, index - 1), a Down input ('j', ESC [ B, or a forwarded hardware Down)
\* sets it to min(len(Items) - 1, index + 1), and neither ends the menu.
C2_UpDownClamp ==
    [][ /\ (MenuTakes(Bytek) \/ EscDecoded(<<ByteBracket, ByteA>>)) =>
              /\ SelectedIndex' = Max(0, SelectedIndex - 1)
              /\ pc' = "wait"
              /\ retErr' = "none"
        /\ (MenuTakes(Bytej) \/ EscDecoded(<<ByteBracket, ByteB>>)) =>
              /\ SelectedIndex' = Min(Len(Items) - 1, SelectedIndex + 1)
              /\ pc' = "wait"
              /\ retErr' = "none" ]_vars

\* the only keystroke so far was an Up at index 0: the index stayed 0, the menu waits
C2_Witness ==
    /\ ~hasIM
    /\ inputsLeft = MaxInputs - 1
    /\ stdin = <<>> /\ inputCh = <<>> /\ kbdPc = "read"
    /\ pc = "wait"
    /\ key = Bytek
    /\ SelectedIndex = 0

\* C3: a Select input (byte 10 or 13) ends the menu loop and returns the entry of
\* the item at the index held at that moment, with no error, the index unchanged.
C3_SelectReturnsCurrent ==
    [][ (MenuTakes(ByteLF) \/ MenuTakes(ByteCR)) =>
            /\ pc' = "done"
            /\ retErr' = "nil"
            /\ retEntry' = Items[SelectedIndex + 1]
            /\ SelectedIndex' = SelectedIndex ]_vars

\* Enter was consumed after a navigation: the second item was returned
C3_Witness ==
    /\ pc = "done"
    /\ key \in {ByteLF, ByteCR}
    /\ SelectedIndex = 1
    /\ retEntry = Items[2]
    /\ retErr = "nil"

\* C4: a keyboard digit n with n <= len(Items) ends the menu loop on that
\* keystroke and returns item n-1 whatever the index was; a digit n > len(Items)
\* changes neither the index nor the outcome, and the loop keeps waiting.
C4_DigitSelects ==
    [][ \A n \in 1 .. 9 :
          MenuTakes(48 + n) =>
             IF n <= Len(Items)
             THEN /\ pc' = "done"
                  /\ retErr' = "nil"
                  /\ retEntry' = Items[n]
                  /\ SelectedIndex' = n - 1
             ELSE /\ pc' = "wait"
                  /\ UNCHANGED <<SelectedIndex, retEntry, retErr>> ]_vars

\* two keystrokes were consumed, the last one the digit 1: item 0 was returned
C4_Witness ==
    /\ KeyboardDrained
    /\ Timeout = 0
    /\ pc = "done"
    /\ key = Byte1
    /\ retEntry = Items[1]
    /\ retErr = "nil"
    /\ SelectedIndex = 0

\* the forwarding goroutine takes an event of code c from the aggregator in this step
ForwarderTakes(c) ==
    fwdPc = "recv" /\ eventChan # <<>> /\ Head(eventChan).Code = c /\ eventChan' = Tail(eventChan)

\* C5: a Digit(n) event a hardware reader put in the aggregator, n <= len(Items),
\* ends the menu and returns item n-1 as the keyboard digit does: once the
\* forwarding goroutine has taken the event and has nothing left to hand over,
\* the menu has returned Items[n-1].
C5_HardwareDigitSelects ==
    \A n \in 1 .. 9 :
       (/\ fwdEvent.Code = KeyQuit + n
        /\ n <= Len(Items)
        /\ fwdPc = "recv"
        /\ inputCh = <<>>)
       => (pc = "done" /\ retErr = "nil" /\ retEntry = Items[n])

\* C6: a Quit input ends the menu loop cancelled: 'q' or 'Q' taken by the loop
\* returns an error and no entry whatever the index is, and a hardware Quit event
\* taken from the aggregator is handed to the loop as 'q'.
C6_QuitCancels ==
    [][ /\ (MenuTakes(Byteq) \/ MenuTakes(ByteQ)) =>
              /\ pc' = "done"
              /\ retErr' = "cancelled"
              /\ retEntry' = 0
        /\ ForwarderTakes(KeyQuit) =>
              /\ fwdPc' = "send"
              /\ fwdByte' = Byteq ]_vars

\* both inputs of the run were the press and the release of the Q key of a
\* device; the menu took the forwarded 'q' and returned cancelled
C6_Witness ==
    /\ hasIM
    /\ inputsLeft = 0
    /\ fwdEvent.Code = KeyQuit
    /\ key = Byteq
    /\ pc = "done"
    /\ retErr = "cancelled"
    /\ retEntry = 0

\* C7: a keyboard ESC byte that does not start an Up or Down arrow sequence ends
\* the menu loop cancelled, with an error and no entry, as Quit does.
C7_EscapeCancels ==
    [][ (/\ pc = "esc"
         /\ pc' # "esc"
         /\ buf' \notin {<<ByteBracket, ByteA>>, <<ByteBracket, ByteB>>})
        => (pc' = "done" /\ retErr' = "cancelled" /\ retEntry' = 0) ]_vars

\* C8: when the menu loop takes the timeout it returns the item at the index
\* held at that moment, with no error and the index unchanged: the result of a
\* Select at that moment, never the cancelled outcome.
C8_TimeoutSelectsCurrent ==
    [][ (pc = "wait" /\ Len(timeoutCh') < Len(timeoutCh)) =>
            /\ pc' = "done"
            /\ retErr' = "nil"
            /\ retEntry' = Items[SelectedIndex + 1]
            /\ SelectedIndex' = SelectedIndex ]_vars

\* the last key taken was a Down that moved to index 1, then the timeout was
\* taken: the second item was returned
C8_Witness ==
    /\ timerPc = "fired"
    /\ timeoutCh = <<>>
    /\ key = Bytej
    /\ SelectedIndex = 1
    /\ pc = "done"
    /\ retErr = "nil"
    /\ retEntry = Items[2]

\* reader d returns from a read of one whole key record in this step
ReaderHandles(d) ==
    /\ devPc[d] = "read"
    /\ devPc'[d] = "check"
    /\ devBuf'[d].whole
    /\ devBuf'[d].type = EV_KEY

\* C9: a release record (value 0) for a code whose pressed flag is not set puts
\* no event in the queue (and changes no flag), for every code and every
\* history of records before it.
C9_BareReleaseNoEvent ==
    [][ \A d \in Devices :
          (/\ ReaderHandles(d)
           /\ devBuf'[d].value = 0
           /\ ~keyStates[d][devBuf'[d].code])
          => (eventChan' = eventChan /\ keyStates' = keyStates) ]_vars

\* the only record so far is the release of the power key, never pressed: the
\* queue is empty
C9_Witness ==
    \E d \in Devices :
       /\ inputsLeft = MaxRecords - 1
       /\ devBuf[d] = [type |-> EV_KEY, code |-> KEY_POWER, value |-> 0, whole |-> TRUE]
       /\ devPc[d] = "check"
       /\ eventChan = <<>>

\* C10: an auto-repeat record (value 2) puts no event in the queue and leaves
\* the press-state map as it was, whether its code is pressed or not.
C10_RepeatIgnored ==
    [][ \A d \in Devices :
          (ReaderHandles(d) /\ devBuf'[d].value = 2)
          => (eventChan' = eventChan /\ keyStates' = keyStates) ]_vars

\* a repeat record of a pressed, translated code was handled: the code is still
\* pressed and the queue is empty
C10_Witness ==
    \E d \in Devices :
       /\ devBuf[d] = [type |-> EV_KEY, code |-> KEY_VOLUMEUP, value |-> 2, whole |-> TRUE]
       /\ devPc[d] = "check"
       /\ keyStates[d][KEY_VOLUMEUP]
       /\ eventChan = <<>>

\* DiscoverDevices is done with node n
Probed(n) == discNext > n

\* node n is in the list of accepted devices
Accepted(n) == \E i \in 1 .. Len(imDevices) : imDevices[i] = n

\* the bytes of pattern occur in name as they are
OccursIn(name, pattern) ==
    \E i \in 0 .. Len(name) - Len(pattern) :
       \A j \in 1 .. Len(pattern) : name[i + j] = pattern[j]

\* the bytes of pattern occur in name, a capital letter of the name standing
\* for its small letter
OccursInAnyCase(name, pattern) ==
    \E i \in 0 .. Len(name) - Len(pattern) :
       \A j \in 1 .. Len(pattern) :
          \/ name[i + j] = pattern[j]
          \/ name[i + j] \in 65 .. 90 /\ name[i + j] + 32 = pattern[j]

\* C18 as stated: under the name-pattern policy a node that opens and answers
\* the name query is accepted iff its name contains one of gpio-keys, power,
\* volume, button, pmic, keyboard, whatever its capability query answers.
C18_AcceptedIffNameContains ==
    \A n \in Nodes :
       (Probed(n) /\ nodeEnv[n].opens /\ nodeEnv[n].nameOK)
       => (Accepted(n) <=> \E pattern \in patterns : OccursIn(nodeEnv[n].name, pattern))

\* C18 amended: ... is accepted iff its name contains one of the patterns
\* without regard to letter case (PMIC, Power Button), whatever its capability
\* query answers; a node that does not open or fails the name query is not
\* accepted.
C18_AcceptedIffNameContainsAnyCase ==
    \A n \in Nodes :
       Probed(n) =>
          (Accepted(n) <=>
             /\ nodeEnv[n].opens
             /\ nodeEnv[n].nameOK
             /\ \E pattern \in patterns : OccursInAnyCase(nodeEnv[n].name, pattern))

\* a gpio-keys node whose capability query fails and a node named
\* "Power Button" without the key bit were both accepted
C18_Witness ==
    /\ cmdPc = "show"
    /\ nodeEnv[1].name = <<103, 112, 105, 111, 45, 107, 101, 121, 115>>
    /\ ~nodeEnv[1].capOK
    /\ nodeEnv[2].name = <<80, 111, 119, 101, 114, 32, 66, 117, 116, 116, 111, 110>>
    /\ nodeEnv[2].capOK /\ nodeEnv[2].evBits = 1
    /\ imDevices = <<1, 2>>
    /\ lkPc = "check"

\* C19: under the capability policy a node is accepted iff it opened, its name
\* query succeeded, and its capability query succeeded with the key-event bit
\* (bit 1) set in the bitmask: the name plays no part.
C19_AcceptedIffKeyCapable ==
    \A n \in Nodes :
       Probed(n) =>
          (Accepted(n) <=>
             /\ nodeEnv[n].opens
             /\ nodeEnv[n].nameOK
             /\ nodeEnv[n].capOK
             /\ nodeEnv[n].evBits \in {2, 3})

\* a key-capable "Lid Switch" was accepted and a gpio-keys node whose
\* capability query failed was rejected
C19_Witness ==
    /\ cmdPc = "show"
    /\ nodeEnv[1].name = <<76, 105, 100, 32, 83, 119, 105, 116, 99, 104>>
    /\ nodeEnv[1].evBits = 3
    /\ nodeEnv[2].name = <<103, 112, 105, 111, 45, 107, 101, 121, 115>>
    /\ nodeEnv[2].nameOK /\ ~nodeEnv[2].capOK
    /\ imDevices = <<1>>
    /\ devPc[1] = "check" /\ devPc[2] = "off"

\* C20: a handle is open only if it is the handle of an accepted device and
\* Stop has not run (what discovery opened and did not accept is closed);
\* every accepted device's handle is open until Stop, and closed after it.
C20_HandlesAccountedFor ==
    /\ \A n \in Nodes : devOpen[n] => (Probed(n) /\ Accepted(n) /\ ~stopped)
    /\ \A n \in Nodes : (Accepted(n) /\ ~stopped) => devOpen[n]

\* node 1 opened and failed the name query, node 2 was accepted; the command
\* returned and Stop closed the handle
C20_Witness ==
    /\ nodeEnv[1].opens /\ ~nodeEnv[1].nameOK
    /\ imDevices = <<2>>
    /\ devPc[2] = "read"
    /\ stopped
    /\ \A n \in Nodes : ~devOpen[n]

TypeOK ==
    /\ pc \in {"show", "prompt", "start", "wait", "esc", "done"}
    /\ retErr \in {"none", "nil", "cancelled", "invalid"}
    /\ Len(inputCh) <= InputChCap
    /\ Len(eventChan) <= EventChanCap

\* C11: on the hardware path one event is produced per completed press cycle:
\* for a translatable code and a queue that is not full, a press record and a
\* repeat record enqueue nothing, and a release record enqueues exactly one
\* event, the translation of its code, when the code's pressed flag is set and
\* nothing otherwise; so a press that is never released yields no event.
C11_OneEventPerCycle ==
    [][ \A d \in Devices :
          (/\ ReaderHandles(d)
           /\ translateKeyCode(devBuf'[d].code) # KeyUnknown
           /\ Len(eventChan) < EventChanCap)
          => eventChan' =
               IF devBuf'[d].value = 0 /\ keyStates[d][devBuf'[d].code]
               THEN Append(eventChan, [Code |-> translateKeyCode(devBuf'[d].code),
                                       Type |-> "KeyPress"])
               ELSE eventChan ]_vars

\* C12: the queue never holds more than its capacity, 10 events; while nothing
\* is taken from it, what it holds stays where it is (the first events pushed
\* are the ones retained), and a push that finds it full drops its event and
\* changes nothing, the reader going on to its next read.
C12_QueueBounded ==
    /\ [](Len(eventChan) <= 10)
    /\ [][ /\ Len(eventChan') >= Len(eventChan)
           /\ SubSeq(eventChan', 1, Len(eventChan)) = eventChan
           /\ \A d \in Devices :
                 (/\ ReaderHandles(d)
                  /\ devBuf'[d].value = 0
                  /\ keyStates[d][devBuf'[d].code]
                  /\ Len(eventChan) = 10)
                 => (eventChan' = eventChan /\ devPc'[d] = "check") ]_vars

\* ten volume-up cycles filled the queue; the last record of the burst was the
\* release of the power key, and no Select event is in the queue
C12_Witness ==
    /\ inputsLeft = MaxBurst - 22
    /\ Len(eventChan) = 10
    /\ \A i \in 1 .. 10 : eventChan[i].Code = KeyUp
    /\ devBuf[1] = [type |-> EV_KEY, code |-> KEY_POWER, value |-> 0, whole |-> TRUE]
    /\ devPc[1] = "check"
    /\ ~keyStates[1][KEY_POWER]
    /\ ~keyStates[1][KEY_VOLUMEUP]

\* C13: no reader is ever held at the publication of an event: the hardware
\* readers and the keyboard listener of the input package publish within the
\* step that decodes the event, and the menu's keyboard goroutine and its
\* forwarding goroutine are never at a send to a full inputCh.
C13_ReadersNeverBlock ==
    /\ ~(kbdPc = "send" /\ Len(inputCh) = InputChCap)
    /\ ~(fwdPc = "send" /\ Len(inputCh) = InputChCap)

\* the line the prompt is given: the bytes of s before the first line feed,
\* without the blanks around them
RECURSIVE TrimRight(_)
TrimRight(s) ==
    IF s # <<>> /\ s[Len(s)] \in SpaceBytes
    THEN TrimRight(SubSeq(s, 1, Len(s) - 1))
    ELSE s

RECURSIVE UpToLF(_)
UpToLF(s) ==
    IF s = <<>> \/ Head(s) = ByteLF THEN <<>> ELSE <<Head(s)>> \o UpToLF(Tail(s))

LineContent(s) == TrimRight(SkipSpace(UpToLF(s)))

\* the line is the decimal numeral of k: an optional sign and digits only
IsNumeralOf(c, k) ==
    LET ds == IF c # <<>> /\ c[1] \in {43, 45} THEN Tail(c) ELSE c IN
    /\ ds # <<>>
    /\ \A i \in 1 .. Len(ds) : ds[i] \in 48 .. 57
    /\ k = (IF c[1] = 45 THEN 0 - DecimalValue(ds) ELSE DecimalValue(ds))

\* C14: the numbered prompt over a non-empty menu returns item 0 for a blank
\* line, item k-1 for a line that is the numeral of an integer k with
\* 1 <= k <= len(Items), and an error and no item for every other line; it
\* returns on the first line (no retry).
C14_PromptResult ==
    [][ (pc = "prompt" /\ pc' # "prompt") =>
          /\ pc' = "done"
          /\ LET c == LineContent(stdin) IN
             IF c = <<>>
             THEN retErr' = "nil" /\ retEntry' = Items[1]
             ELSE IF \E k \in 1 .. Len(Items) : IsNumeralOf(c, k)
                  THEN \E k \in 1 .. Len(Items) :
                          IsNumeralOf(c, k) /\ retErr' = "nil" /\ retEntry' = Items[k]
                  ELSE retErr' = "invalid" /\ retEntry' = 0 ]_vars

\* C15: on the fallback path (no terminal on stdout, or setupTerminal failed)
\* Show runs only the numbered prompt: the timer, the forwarding and the
\* keyboard goroutines are never started, the terminal is not put in raw mode,
\* no event is taken from the aggregator, and the prompt ends only by its own
\* read of stdin, with the result the line decides.
C15_FallbackIsPromptOnly ==
    /\ []((~IsTTY \/ pc = "prompt") =>
            (/\ timerPc = "off" /\ fwdPc = "off" /\ kbdPc = "off"
             /\ timeoutCh = <<>> /\ inputCh = <<>>
             /\ ~termRaw
             /\ pc \in {"show", "prompt", "done"}))
    /\ [][ pc = "prompt" =>
            (/\ Len(eventChan') >= Len(eventChan)
             /\ pc' \in {"prompt", "done"}
             /\ pc' = "done" =>
                   (/\ ScanComplete(stdin)
                    /\ retEntry' = showSimpleMenu(Items, ScanToken(stdin)).entry
                    /\ retErr' = showSimpleMenu(Items, ScanToken(stdin)).err)) ]_vars

\* without a terminal, with a timeout configured and a device whose power key
\* was pressed, the prompt returned the first item on a blank line
C15_Witness ==
    /\ ~IsTTY
    /\ hasIM
    /\ Timeout = 1
    /\ keyStates[1][KEY_POWER]
    /\ pc = "done"
    /\ input = <<>>
    /\ retErr = "nil"
    /\ retEntry = Items[1]

\* C16: the terminal is in raw mode only while the interactive menu runs:
\* never before Show, never on the prompt path, and never once Show has
\* returned, whatever the outcome (selection, digit, cancel, timeout).
C16_RawOnlyWhileInteractive ==
    termRaw => (IsTTY /\ pc \in {"start", "wait", "esc"})

\* the interactive menu was cancelled with 'q' and the terminal is restored
C16_Witness ==
    /\ IsTTY
    /\ kbdPc # "off"
    /\ key = Byteq
    /\ pc = "done"
    /\ retErr = "cancelled"
    /\ ~termRaw

\* the keyboard listener ends an iteration in this step
ListenerDecodes == lkPc = "read" /\ lkPc' = "check"

\* the keyboard listener reads a byte in this step and goes on to read another
ListenerReadsOn == lkPc = "read" /\ lkPc' = "read" /\ lkBytes' # lkBytes

\* C17: the keyboard listener turns ESC [ A into Up, ESC [ B into Down, ESC [
\* and any other byte into Escape, ESC and a byte other than [ into Escape, and
\* ESC and a failed follow-on read into Escape; each such sequence publishes
\* exactly one event, at its last byte, and a byte no binding names publishes
\* none.
C17_EscapeDecoding ==
    [][ /\ ListenerReadsOn => eventChan' = eventChan
        /\ (ListenerDecodes /\ lkBytes'[1] = ByteESC) =>
              eventChan' = Append(eventChan,
                  [Code |-> CASE lkBytes' = <<ByteESC, ByteBracket, ByteA>> -> KeyUp
                              [] lkBytes' = <<ByteESC, ByteBracket, ByteB>> -> KeyDown
                              [] OTHER -> KeyEscape,
                   Type |-> "KeyPress"])
        /\ (ListenerDecodes
             /\ lkBytes'[1] \notin {ByteESC, ByteLF, ByteCR, Bytej, Bytek, Byteq, ByteQ}
             /\ lkBytes'[1] \notin Byte1 .. Byte9) =>
              eventChan' = eventChan ]_vars

\* the listener read ESC [ Z and published Escape
C17_Witness ==
    /\ lkBytes = <<ByteESC, ByteBracket, 90>>
    /\ lkPc = "check"
    /\ eventChan # <<>>
    /\ eventChan[Len(eventChan)].Code = KeyEscape

\* DiscoverDevices has returned
DiscoveryReturned == cmdPc # "discover"

\* C21: when the directory read fails DiscoverDevices returns an error and no
\* device is accepted; otherwise it returns nil, also when nodes fail to open
\* or fail the name query, and then every node was examined and is accepted
\* or rejected by what that node itself answers.
C21_DirectoryFatalDeviceNot ==
    /\ discErr \in {"none", "nil", "readdir"}
    /\ DiscoveryReturned <=> discErr # "none"
    /\ discErr = "readdir" => (imDevices = <<>> /\ \A n \in Nodes : ~devOpen[n])
    /\ discErr = "nil" =>
          \A n \in Nodes :
             /\ Probed(n)
             /\ Accepted(n) <=>
                   /\ nodeEnv[n].opens
                   /\ nodeEnv[n].nameOK
                   /\ supportsKeyEvents(nodeEnv[n].capOK, nodeEnv[n].evBits)

\* node 1 did not open, node 2 was examined and accepted, nil was returned
C21_Witness ==
    /\ ~nodeEnv[1].opens
    /\ discErr = "nil"
    /\ imDevices = <<2>>
    /\ devOpen[2]
    /\ cmdPc = "show"

\* the read of reader d returns in this step without a record or a short
\* read having been delivered: it returned an error
ReadFails(d) == devPc[d] = "read" /\ devPc'[d] # "read" /\ inputsLeft' = inputsLeft

\* C22: a reader whose read returns an error terminates: it leaves its loop for
\* good, having pushed nothing, and in that step no other reader and not the
\* menu loop change their position.
C22_ReadErrorEndsReader ==
    [][ /\ \A d \in Devices :
              ReadFails(d) =>
                 /\ devPc'[d] = "exited"
                 /\ eventChan' = eventChan
                 /\ pc' = pc
                 /\ \A e \in Devices \ {d} : devPc'[e] = devPc[e]
        /\ \A d \in Devices : devPc[d] = "exited" => devPc'[d] = "exited" ]_vars

\* C23: once Stop has broadcast the stop signal every reader started by
\* StartListening, the device readers and the keyboard listener, has left its
\* loop in the end, also one that was in its read call at that moment.
C23_ReadersExitAfterStop ==
    stopped ~> (/\ \A d \in Devices : devPc[d] \in {"off", "exited"}
                /\ lkPc \in {"off", "exited"})

\* C24: the loader is called at most once, with the entry Show returned with
\* a nil error and the boot-root path of the command; when Show returned an
\* error or a nil entry the loader is not called and the command's next step
\* is the exit with status 1.
C24_LoaderOnlyWithReturnedEntry ==
    /\ [](loadCalls # <<>> =>
            /\ pc = "done" /\ retErr = "nil" /\ retEntry # 0
            /\ loadCalls = << <<retEntry, bootRoot>> >>)
    /\ []((pc = "done" /\ (retErr # "nil" \/ retEntry = 0)) => loadCalls = <<>>)
    /\ [][ (pc = "done" /\ (retErr # "nil" \/ retEntry = 0) /\ cmdPc' # cmdPc)
            => (cmdPc' = "exit1" /\ loadCalls' = <<>>) ]_vars

\* the menu was cancelled with 'q': the command exited with status 1 and the
\* loader was not called
C24_Witness ==
    /\ key = Byteq
    /\ pc = "done"
    /\ retErr = "cancelled"
    /\ cmdPc = "exit1"
    /\ loadCalls = <<>>

\* C25: in no reachable state is a reader in its read call (past the stop
\* check, the read issued or pending) on a handle that Stop has closed.
C25_NoReadOnClosedHandle ==
    \A d \in Nodes : devPc[d] = "read" => devOpen[d]

\* C26: when stop is requested while the menu loop waits, the wait ends: the
\* loop does not stay at its select.
C26_StopEndsWait ==
    (stopped /\ pc = "wait") ~> pc # "wait"

\* C27: where every key pressed is an arrow (ESC [ A, ESC [ B), the menu loop
\* takes no key from inputCh but ESC, its follow-on read returns the [ and the
\* letter of that arrow, the selection moves by the clamped step of the
\* letter, and the menu keeps running, in every interleaving of the keyboard
\* goroutine with the loop's follow-on read.
C27_ArrowSequenceWhole ==
    [][ /\ \A k \in 0 .. 255 : MenuTakes(k) => k = ByteESC
        /\ (pc = "esc" /\ pc' # "esc") =>
              /\ buf' \in {<<ByteBracket, ByteA>>, <<ByteBracket, ByteB>>}
              /\ buf'[2] = ByteA => SelectedIndex' = Max(0, SelectedIndex - 1)
              /\ buf'[2] = ByteB => SelectedIndex' = Min(Len(Items) - 1, SelectedIndex + 1)
              /\ pc' = "wait" /\ retErr' = "none" ]_vars

\* C28: the queue keeps the order of publication and the consumer takes from
\* its head: a step leaves the queue as it is, or puts one event at its tail,
\* or takes its first event; the reader that completes a press cycle puts the
\* event of that cycle at the tail in that step (or drops it when the queue is
\* full), whatever the other readers do; what the consumer takes is the
\* oldest event queued.  So the events of one device leave the queue in the
\* order its cycles completed.
C28_PerDeviceOrder ==
    [][ /\ \/ eventChan' = eventChan
           \/ /\ Len(eventChan') = Len(eventChan) + 1
              /\ SubSeq(eventChan', 1, Len(eventChan)) = eventChan
           \/ /\ eventChan # <<>>
              /\ eventChan' = Tail(eventChan)
              /\ fwdEvent' = Head(eventChan)
        /\ \A d \in Nodes :
              ReaderHandles(d) =>
                 eventChan' =
                    IF /\ devBuf'[d].value = 0
                       /\ keyStates[d][devBuf'[d].code]
                       /\ Len(eventChan) < EventChanCap
                    THEN Append(eventChan, [Code |-> translateKeyCode(devBuf'[d].code),
                                            Type |-> "KeyPress"])
                    ELSE eventChan ]_vars

\* three cycles were completed on two devices: the consumer took the first
\* event, Up, and the events of the two later cycles, Down of device 1 and Up
\* of device 2, are queued in the order of their completion
C28_Witness ==
    /\ inputsLeft = MaxCycleRecords - 6
    /\ fwdEvent.Code = KeyUp
    /\ fwdPc = "send"
    /\ eventChan = <<[Code |-> KeyDown, Type |-> "KeyPress"], [Code |-> KeyUp, Type |-> "KeyPress"]>>
    /\ devBuf[1] = [type |-> EV_KEY, code |-> KEY_VOLUMEDOWN, value |-> 0, whole |-> TRUE]
    /\ devBuf[2] = [type |-> EV_KEY, code |-> KEY_VOLUMEUP, value |-> 0, whole |-> TRUE]

\* the menu loop takes a key from inputCh in this step
MenuConsumes == pc = "wait" /\ inputCh # <<>> /\ inputCh' = Tail(inputCh)

\* C29: nothing is rendered before the interactive loop; the menu is rendered
\* once when the loop first reaches its wait, once more each time the loop
\* comes back to the wait after a consumed input (after the follow-on read
\* for ESC), not when the input ends the menu, and in no other step: not
\* while the loop is blocked.  The item list never changes, and a step that
\* only redraws (a key without a binding) leaves the selection as it was.
C29_RenderOncePerInput ==
    /\ [](pc \in {"show", "prompt", "start"} => draws = 0)
    /\ [][ /\ (pc = "start" /\ pc' = "wait") => draws' = 1
           /\ MenuConsumes => draws' = (IF pc' = "wait" THEN draws + 1 ELSE draws)
           /\ (pc = "esc" /\ pc' = "wait") => draws' = draws + 1
           /\ draws' # draws =>
                 (pc = "start" \/ MenuConsumes \/ (pc = "esc" /\ pc' = "wait"))
           /\ pc' = "done" => draws' = draws
           /\ Items' = Items
           /\ (MenuConsumes /\ pc' = "wait" /\ key' \notin {Bytej, Bytek}) =>
                 (SelectedIndex' = SelectedIndex /\ draws' = draws + 1) ]_vars

\* two keys were consumed and neither ended the menu, the last one a digit
\* past the menu: the menu was rendered three times
C29_Witness ==
    /\ ~hasIM
    /\ inputsLeft = MaxInputs - 2
    /\ stdin = <<>> /\ inputCh = <<>> /\ kbdPc = "read"
    /\ pc = "wait"
    /\ key = Byte9
    /\ draws = 3

\* the read of reader d returns in this step with a short read or with a
\* record of another type than the key type
ReaderDiscards(d) ==
    /\ devPc[d] = "read"
    /\ devPc'[d] # "read"
    /\ inputsLeft' = inputsLeft - 1
    /\ (~devBuf'[d].whole \/ devBuf'[d].type # EV_KEY)

\* C30: a short read and a record of another type than the key type, the
\* synchronization record included, change neither the press-state map nor
\* the queue, and the reader goes to the head of its loop for the next read.
C30_NonKeyAndShortDiscarded ==
    [][ \A d \in Devices :
          ReaderDiscards(d) =>
             /\ keyStates' = keyStates
             /\ eventChan' = eventChan
             /\ devPc'[d] = "check" ]_vars

\* the power key was pressed, then a record of type 4 with the power key's
\* code and value 0 arrived: the key is still pressed and the queue is empty
C30_Witness ==
    \E d \in Devices :
       /\ inputsLeft = MaxRecords - 2
       /\ devBuf[d] = [type |-> 4, code |-> KEY_POWER, value |-> 0, whole |-> TRUE]
       /\ devPc[d] = "check"
       /\ keyStates[d][KEY_POWER]
       /\ eventChan = <<>>

\* what drawMenu left of text where maxWidth columns are free for it: at most
\* maxWidth bytes, the ellipsis at its end if it was cut, and a cut position
\* that is not negative
Fits(text, shown, maxWidth) ==
    /\ Len(shown) <= maxWidth
    /\ Len(text) > maxWidth =>
           /\ maxWidth - EllipsisLen >= 0
           /\ Len(shown) >= EllipsisLen
           /\ SubSeq(shown, Len(shown) - EllipsisLen + 1, Len(shown)) = Ellipsis

\* C31: for every terminal width and every display-name or description length
\* drawMenu's truncation yields at most width-6 characters for a name and
\* width-8 for a description, ending in "..." when truncated, with a cut
\* position (width - margin - 3) that is never negative: neither truncation
\* fails on a narrow terminal.
C31_TruncationFits ==
    screen.done /\ screen.panic # "separator" =>
        /\ screen.panic = "none"
        /\ Fits(DisplayName, screen.name, Width - NameMargin)
        /\ Description # <<>> => Fits(Description, screen.desc, Width - DescMargin)

\* C32: with a timeout > 0 configured the interactive menu returns in the end
\* in every execution, whatever input is or is not received, a lone ESC byte
\* with no byte after it included.
C32_TimeoutEndsMenu ==
    (Timeout > 0 /\ pc = "wait") ~> pc = "done"

\* the byte the keyboard goroutine hands the loop for the key that does what
\* the hardware event of code c does: 'k', 'j', Enter
KeyboardByteFor(c) ==
    CASE c = KeyUp -> Bytek
      [] c = KeyDown -> Bytej
      [] c = KeySelect -> ByteCR

\* the forwarding goroutine hands the byte of the event it took to the loop's
\* channel in this step
ForwarderHandsOver == fwdPc = "send" /\ fwdPc' = "recv"

====
